---- MODULE Spec2Model ----
(***************************************************************************)
(* A model of the PueueWrapper operation facade: the Command Runner        *)
(* (_run_pueue_command), the control and query operations built on it,     *)
(* and the layers that forward to them (sync core, HTTP routes).           *)
(*                                                                         *)
(* One caller drives one operation at a time.  An operation runs from its  *)
(* call up to its first await of the Command Runner, is resumed when the   *)
(* child process has exited (or could not be spawned), and either issues   *)
(* its next command or returns.  The pueue binary is the environment: its  *)
(* exit code, stdout and stderr are chosen nondeterministically.           *)
(***************************************************************************)
EXTENDS Integers, Sequences, FiniteSets, TLC

\* ------------------------------------------------------------------ bounds
MaxId == 2      \* task ids are 1..MaxId
MaxIds == 2     \* longest id list a caller passes
MaxSample == 3  \* longest free-form sample of task durations
MaxRamp == 10   \* longest sample of the durations 1 s, 2 s, ..., n s
MaxCalls == 2   \* most wrapper calls the Groups page makes in one session

\* ------------------------------------------------------- Python values
None == "<None>"            \* Python's None, for Optional[str] parameters
Omitted == "<omitted>"      \* a keyword parameter the caller did not pass

\* Optional values that are not strings.
Absent == [some |-> FALSE, v |-> <<>>]
Some(x) == [some |-> TRUE, v |-> x]

\* Python truthiness of an Optional[str]: None and "" are falsy.
Truthy(s) == s # None /\ s # ""

TaskIds == 1..MaxId
IdLists == UNION {[1..n -> TaskIds] : n \in 0..MaxIds}

\* Union[int, List[int]] arguments (and None, which the signature does not
\* allow but Python does not reject).
IntArg(n) == [t |-> "int", v |-> <<n>>]
ListArg(s) == [t |-> "list", v |-> s]
NoneArg == [t |-> "none", v |-> <<>>]
TaskIdsArgs == {IntArg(n) : n \in TaskIds} \cup {ListArg(s) : s \in IdLists} \cup {NoneArg}

\* bool(x) of a list-or-None argument: None and [] are falsy.
TruthyList(a) == a.t = "list" /\ a.v # <<>>

\* `if isinstance(task_ids, int): task_ids = [task_ids]`
as_list(task_ids) == ListArg(task_ids.v)

\* [str(tid) for tid in task_ids]
str_list(ids) == [i \in DOMAIN ids |-> ToString(ids[i])]

\* The elements of a list.
Range(f) == {f[i] : i \in DOMAIN f}

RECURSIVE join(_, _)
join(sep, strs) ==
    IF strs = <<>> THEN ""
    ELSE IF Len(strs) = 1 THEN strs[1]
    ELSE strs[1] \o sep \o join(sep, Tail(strs))

\* f"{task_ids}" of a list of ints: "[1, 2]"
repr_int_list(ids) == "[" \o join(", ", str_list(ids)) \o "]"

\* f"{groups}" of a list of strings: "['a', 'b']"
repr_str_list(strs) == "[" \o join(", ", [i \in DOMAIN strs |-> "'" \o strs[i] \o "'"]) \o "]"

\* ------------------------------------------------------- results, faults
Raise(type, message) == [kind |-> "raise", type |-> type, message |-> message]
Return(value) == [kind |-> "return", value |-> value]
NoResult == [kind |-> "none"]

TaskControl(success, message, task_ids) ==
    [success |-> success, message |-> message, task_ids |-> task_ids]

\* Iterating None: `for tid in task_ids` with task_ids = None.
NotIterable == Raise("TypeError", "'NoneType' object is not iterable")

\* ------------------------------------------------------- JSON documents
\* Decoded JSON values, tagged by their Python type.
JNull == [t |-> "null"]
JNum(n) == [t |-> "int", v |-> n]
JStr(x) == [t |-> "str", v |-> x]
JList(x) == [t |-> "list", v |-> x]
JDict(f) == [t |-> "dict", v |-> f]

EmptyDict == [k \in {} |-> JNull]

\* The log entry the daemon holds for task i, as JSON text and decoded.
log_entry_text(i) ==
    "{\"task\":{\"id\":" \o ToString(i) \o ",\"created_at\":\"2025-01-01T00:00:00Z\","
        \o "\"original_command\":\"ls\",\"command\":\"ls\",\"path\":\"/tmp\",\"envs\":{},"
        \o "\"group\":\"default\",\"dependencies\":[],\"priority\":0,\"label\":null,"
        \o "\"status\":{\"Done\":{\"enqueued_at\":\"2025-01-01T00:00:00Z\","
        \o "\"start\":\"2025-01-01T00:00:01Z\",\"end\":\"2025-01-01T00:00:02Z\","
        \o "\"result\":\"Success\"}}},\"output\":\"out" \o ToString(i) \o "\"}"

log_entry_value(i) ==
    JDict([task |-> JDict([id |-> JNum(i), created_at |-> JStr("2025-01-01T00:00:00Z"),
                           original_command |-> JStr("ls"), command |-> JStr("ls"),
                           path |-> JStr("/tmp"), envs |-> JDict(EmptyDict),
                           group |-> JStr("default"), dependencies |-> JList(<<>>),
                           priority |-> JNum(0), label |-> JNull,
                           status |-> JDict([Done |-> JDict(
                               [enqueued_at |-> JStr("2025-01-01T00:00:00Z"),
                                start |-> JStr("2025-01-01T00:00:01Z"),
                                end |-> JStr("2025-01-01T00:00:02Z"),
                                result |-> JStr("Success")])])]),
           output |-> JStr("out" \o ToString(i))])

\* The ids of a set in ascending order.
RECURSIVE sorted(_)
sorted(S) ==
    IF S = {} THEN <<>>
    ELSE LET m == CHOOSE x \in S : \A y \in S : x <= y IN <<m>> \o sorted(S \ {m})

\* `pueue log --json` output holding the entries of the tasks in S.
log_text(S) ==
    "{" \o join(",", [i \in DOMAIN sorted(S) |->
                        "\"" \o ToString(sorted(S)[i]) \o "\":" \o log_entry_text(sorted(S)[i])])
        \o "}"

log_value(S) ==
    JDict([k \in {ToString(i) : i \in S} |-> log_entry_value(CHOOSE i \in S : ToString(i) = k)])

\* Output that is not what the wrapper expects.
MalformedText == "Error: daemon not reachable"
ListText == "[]"
NullText == "null"
BadEntryText == "{\"1\":{\"task\":5}}"
BadEntryValue == JDict([k \in {"1"} |-> JDict([task |-> JNum(5)])])

StatusText == "{\"tasks\":{},\"groups\":{\"default\":{\"status\":\"Running\",\"parallel_tasks\":1}}}"
StatusValue ==
    JDict([tasks |-> JDict(EmptyDict),
           groups |-> JDict([default |-> JDict([status |-> JStr("Running"),
                                                 parallel_tasks |-> JNum(1)])])])
NoTasksText == "{\"groups\":{}}"
NoTasksValue == JDict([groups |-> JDict(EmptyDict)])

GroupsText == "{\"default\":{\"status\":\"Running\",\"parallel_tasks\":1}}"
GroupsValue == JDict([default |-> JDict([status |-> JStr("Running"), parallel_tasks |-> JNum(1)])])
BadGroupText == "{\"default\":{\"status\":\"Bogus\",\"parallel_tasks\":1}}"
BadGroupValue == JDict([default |-> JDict([status |-> JStr("Bogus"), parallel_tasks |-> JNum(1)])])

\* A JSON object whose key order matters to the code (list(d.keys())[0]).
JODict(keys, f) == [t |-> "dict", v |-> f, keys |-> keys]

\* The wire forms of a task's `status` object: the usual one-tag objects, a
\* Done task by its result, an object with no tag, one with two tags, and a
\* bare string.
StatusShapes ==
    {"Queued", "Running", "Paused", "Stashed", "Success", "Failed", "Killed",
     "NoResult", "FailedToSpawn", "Empty", "Two", "Locked", "Skewed", "OtherTag"}

Enqueued == "\"enqueued_at\":\"2025-01-01T00:00:00Z\""
Started == "\"start\":\"2025-01-01T00:00:01Z\""
Ended == "\"end\":\"2025-01-01T00:00:02Z\""

wire_status_text(shape) ==
    CASE shape = "Queued" -> "{\"Queued\":{" \o Enqueued \o "}}"
      [] shape = "Running" -> "{\"Running\":{" \o Enqueued \o "," \o Started \o "}}"
      [] shape = "Paused" -> "{\"Paused\":{" \o Enqueued \o "," \o Started \o "}}"
      [] shape = "Stashed" -> "{\"Stashed\":{\"enqueue_at\":null}}"
      [] shape = "Success" ->
            "{\"Done\":{" \o Enqueued \o "," \o Started \o "," \o Ended \o ",\"result\":\"Success\"}}"
      [] shape = "Failed" ->
            "{\"Done\":{" \o Enqueued \o "," \o Started \o "," \o Ended \o ",\"result\":{\"Failed\":1}}}"
      [] shape = "Killed" ->
            "{\"Done\":{" \o Enqueued \o "," \o Started \o "," \o Ended \o ",\"result\":\"Killed\"}}"
      [] shape = "NoResult" ->
            "{\"Done\":{" \o Enqueued \o "," \o Started \o "," \o Ended \o "}}"
      [] shape = "FailedToSpawn" ->
            "{\"Done\":{" \o Enqueued \o ",\"result\":{\"FailedToSpawn\":\"No such file\"}}}"
      [] shape = "Empty" -> "{}"
      [] shape = "Two" ->
            "{\"Queued\":{" \o Enqueued \o "},\"Done\":{" \o Enqueued \o "," \o Started \o ","
                \o Ended \o ",\"result\":\"Success\"}}"
      [] shape = "Locked" -> "\"Locked\""
      [] shape = "Skewed" ->
            "{\"Running\":{\"enqueued_at\":\"2025-01-01T00:00:05Z\"," \o Started \o "}}"
      [] shape = "OtherTag" -> "{\"Locked\":{\"previous_status\":\"Queued\"}}"

JEnqueued == JStr("2025-01-01T00:00:00Z")
JStarted == JStr("2025-01-01T00:00:01Z")
JEnded == JStr("2025-01-01T00:00:02Z")

done_info(res) ==
    JDict([enqueued_at |-> JEnqueued, start |-> JStarted, end |-> JEnded, result |-> res])

wire_status_value(shape) ==
    CASE shape = "Queued" -> JODict(<<"Queued">>, [Queued |-> JDict([enqueued_at |-> JEnqueued])])
      [] shape = "Running" ->
            JODict(<<"Running">>, [Running |-> JDict([enqueued_at |-> JEnqueued, start |-> JStarted])])
      [] shape = "Paused" ->
            JODict(<<"Paused">>, [Paused |-> JDict([enqueued_at |-> JEnqueued, start |-> JStarted])])
      [] shape = "Stashed" -> JODict(<<"Stashed">>, [Stashed |-> JDict([enqueue_at |-> JNull])])
      [] shape = "Success" -> JODict(<<"Done">>, [Done |-> done_info(JStr("Success"))])
      [] shape = "Failed" -> JODict(<<"Done">>, [Done |-> done_info(JDict([Failed |-> JNum(1)]))])
      [] shape = "Killed" -> JODict(<<"Done">>, [Done |-> done_info(JStr("Killed"))])
      [] shape = "NoResult" ->
            JODict(<<"Done">>, [Done |-> JDict([enqueued_at |-> JEnqueued, start |-> JStarted,
                                                end |-> JEnded])])
      [] shape = "FailedToSpawn" ->
            JODict(<<"Done">>, [Done |-> JDict([enqueued_at |-> JEnqueued,
                        result |-> JDict([FailedToSpawn |-> JStr("No such file")])])])
      [] shape = "Empty" -> JODict(<<>>, EmptyDict)
      [] shape = "Two" ->
            JODict(<<"Queued", "Done">>,
                   [Queued |-> JDict([enqueued_at |-> JEnqueued]), Done |-> done_info(JStr("Success"))])
      [] shape = "Locked" -> JStr("Locked")
      [] shape = "Skewed" ->
            JODict(<<"Running">>, [Running |-> JDict([enqueued_at |-> JStr("2025-01-01T00:00:05Z"),
                                                      start |-> JStarted])])
      [] shape = "OtherTag" ->
            JODict(<<"Locked">>, [Locked |-> JDict([previous_status |-> JStr("Queued")])])

\* One task of `pueue status --json`, as text and decoded.
task_text(i, shape) ==
    "{\"id\":" \o ToString(i) \o ",\"created_at\":\"2025-01-01T00:00:00Z\","
        \o "\"original_command\":\"ls\",\"command\":\"ls\",\"path\":\"/tmp\",\"envs\":{},"
        \o "\"group\":\"default\",\"dependencies\":[],\"priority\":0,\"label\":null,"
        \o "\"status\":" \o wire_status_text(shape) \o "}"

task_value(i, shape) ==
    JDict([id |-> JNum(i), created_at |-> JStr("2025-01-01T00:00:00Z"),
           original_command |-> JStr("ls"), command |-> JStr("ls"),
           path |-> JStr("/tmp"), envs |-> JDict(EmptyDict),
           group |-> JStr("default"), dependencies |-> JList(<<>>),
           priority |-> JNum(0), label |-> JNull,
           status |-> wire_status_value(shape)])

\* What the daemon can hold: some tasks, each with a status of some shape.
Snapshots == UNION {[S -> StatusShapes] : S \in SUBSET TaskIds}

\* `pueue status --json` output for the snapshot `snap`.
status_text(snap) ==
    "{\"tasks\":{"
        \o join(",", [i \in DOMAIN sorted(DOMAIN snap) |->
                "\"" \o ToString(sorted(DOMAIN snap)[i]) \o "\":"
                    \o task_text(sorted(DOMAIN snap)[i], snap[sorted(DOMAIN snap)[i]])])
        \o "},\"groups\":{\"default\":{\"status\":\"Running\",\"parallel_tasks\":1}}}"

status_value(snap) ==
    JDict([tasks |-> JDict([k \in {ToString(i) : i \in DOMAIN snap} |->
                        LET i == CHOOSE j \in DOMAIN snap : ToString(j) = k
                        IN task_value(i, snap[i])]),
           groups |-> JDict([default |-> JDict([status |-> JStr("Running"),
                                                 parallel_tasks |-> JNum(1)])])])

\* The status texts, by snapshot.
StatusTexts == [snap \in Snapshots |-> status_text(snap)]

\* json.loads over the texts the binary can print.
json_loads(text) ==
    CASE text = ListText -> Return(JList(<<>>))
      [] text = NullText -> Return(JNull)
      [] text = BadEntryText -> Return(BadEntryValue)
      [] text = StatusText -> Return(StatusValue)
      [] \E snap \in Snapshots : text = StatusTexts[snap] ->
            Return(status_value(CHOOSE snap \in Snapshots : text = StatusTexts[snap]))
      [] text = NoTasksText -> Return(NoTasksValue)
      [] text = GroupsText -> Return(GroupsValue)
      [] text = BadGroupText -> Return(BadGroupValue)
      [] \E S \in SUBSET TaskIds : text = log_text(S) ->
            Return(log_value(CHOOSE S \in SUBSET TaskIds : text = log_text(S)))
      [] OTHER -> Raise("JSONDecodeError", "Expecting value: line 1 column 1 (char 0)")

\* ------------------------------------------------------- the pueue binary
GroupNames == {"g", "default"}

NoChild == [state |-> "none", returncode |-> 0, stdout |-> "", stderr |-> ""]
SpawnFailed == [state |-> "spawn_failed", returncode |-> 0, stdout |-> "", stderr |-> ""]
Running == [state |-> "running", returncode |-> 0, stdout |-> "", stderr |-> ""]
Exited(code, out, err) == [state |-> "exited", returncode |-> code, stdout |-> out, stderr |-> err]

\* What the binary prints on success, by sub-command.
\* `pueue log --json` prints the daemon's whole log object; with a --group or
\* id filter the tool picks the entries, and the wrapper does not rely on which.
LogStdouts(args, logs) ==
    (IF Len(args) = 2 THEN {log_text(logs)} ELSE {log_text(S) : S \in SUBSET logs})
        \cup {BadEntryText, ListText, NullText, MalformedText}

Stdouts(args, logs) ==
    CASE args[1] = "add" -> {"7\n", "New task added (id 7).\n"}
      [] args[1] = "wait" -> {"", "Task 1 finished\n"}
      [] args[1] = "status" -> {StatusTexts[snap] : snap \in Snapshots}
                                 \cup {StatusText, NoTasksText, ListText, MalformedText}
      [] args[1] = "log" -> LogStdouts(args, logs)
      [] args[1] = "group" /\ args[2] = "-j" ->
            {GroupsText, BadGroupText, ListText, MalformedText}
      [] OTHER -> {""}

Stderrs == {"", "Error: bad request"}

\* Exit codes: success, rejected arguments, killed by a signal.
ChildExits(args, logs) ==
    {Exited(0, o, "") : o \in Stdouts(args, logs)}
        \cup {Exited(1, "", e) : e \in Stderrs}
        \cup {Exited(-9, "", "")}

VARIABLES
    pc,       \* "idle", "runner", "communicate", "spawn_failed", "returned"
    op,       \* the operation in progress and its arguments
    inner,    \* the nested operation a compound operation is awaiting
    argv,     \* the argument vector handed to the Command Runner
    child,    \* the child process of the current Command Runner call
    issued,   \* the argument vectors exec'ed since the operation was called
    exits,    \* how each exec'ed command ended, in the order of `issued`
    runs,     \* the number of Command Runner calls since the operation was called
    result,   \* what the operation returned or raised
    daemon,   \* the ids of the tasks the pueue daemon holds a log entry for
    processes, \* the wrapper instance's `processes` attribute
    frames,   \* the call frames of operations running concurrently on one instance
    bridge,   \* the synchronous facade's call in progress
    ui        \* the dashboard's Groups page: its widgets and the calls it made

vars == <<pc, op, inner, argv, child, issued, exits, runs, result, daemon, processes, frames, bridge, ui>>

\* What the single caller's own steps leave alone.
around == <<daemon, processes, frames, bridge, ui>>

NoOp ==
    [name |-> "", layer |-> "", task_ids |-> NoneArg, group |-> None,
     flag |-> FALSE, supplied |-> Omitted, groups |-> NoneArg, n |-> 0,
     command |-> "", label |-> None, working_directory |-> None,
     priority |-> Absent, after |-> NoneArg, delay |-> None,
     immediate |-> FALSE, follow |-> FALSE, stashed |-> FALSE,
     escape |-> FALSE, print_task_id |-> TRUE, durations |-> <<>>]

\* Coroutines running concurrently on one wrapper instance (asyncio.gather).
Callers == {"c1", "c2"}

\* A coroutine's frame: its locals (`args`, `proc`) and its position.
IdleFrame == [pc |-> "idle", op |-> NoOp, argv |-> <<>>, child |-> NoChild, result |-> NoResult]

\* No synchronous call in progress.
NoBridge == [state |-> "idle", caller_loop |-> FALSE, thread |-> "", loop |-> "", value |-> NoResult]

\* The Groups page before its first run: nothing selected or rendered.
NoUi == [selected |-> "default", rendered |-> {}, pressed |-> "", clicks |-> <<>>, calls |-> <<>>]

\* A fresh wrapper instance, nothing called yet.
Fresh ==
    /\ ui = NoUi
    /\ daemon = {}
    /\ processes = EmptyDict
    /\ frames = [c \in Callers |-> IdleFrame]
    /\ bridge = NoBridge
    /\ pc = "idle"
    /\ inner = ""
    /\ argv = <<>>
    /\ child = NoChild
    /\ issued = <<>>
    /\ exits = <<>>
    /\ runs = 0
    /\ result = NoResult

Init == Fresh /\ op = NoOp

\* ------------------------------------------------------- Command Runner
FileNotFound == Raise("FileNotFoundError", "[Errno 2] No such file or directory: 'pueue'")

\* What `await self._run_pueue_command(*args)` gives its caller once the child
\* `c` is settled.
run_pueue_command(c) ==
    IF c.state = "spawn_failed" THEN FileNotFound
    ELSE IF c.returncode # 0 THEN Raise("Exception", "Pueue command failed: " \o c.stderr)
    ELSE Return(c.stdout)

\* A coroutine advances only while the event loop it is on gets to run: the
\* loop of a thread that is blocked inside a synchronous call does not.
LoopRuns == bridge.loop # "running_loop"

\* The operation reaches `await self._run_pueue_command(*args)`.
Invoke(args) ==
    /\ LoopRuns
    /\ pc' = "runner"
    /\ argv' = args
    /\ runs' = runs + 1
    /\ UNCHANGED <<child, issued, exits, result, around>>

\* The operation finishes without (further) invoking the binary.
Finish(r) ==
    /\ LoopRuns
    /\ pc' = "returned"
    /\ result' = r
    /\ UNCHANGED <<argv, child, issued, exits, runs, around>>

\* `proc = await asyncio.create_subprocess_exec("pueue", *args, ...)`
create_subprocess_exec ==
    /\ pc = "runner"
    /\ LoopRuns
    /\ issued' = Append(issued, argv)
    /\ \/ child' = Running /\ pc' = "communicate" /\ exits' = exits
       \/ child' = SpawnFailed /\ pc' = "spawn_failed" /\ exits' = Append(exits, SpawnFailed)
    /\ UNCHANGED <<op, inner, argv, runs, result, around>>

\* The environment: what a `pueue clean` that exited with `code` leaves of the
\* finished tasks the daemon shows; every task of the model is in group default.
pueue_clean(args, code, tasks) ==
    IF args[1] = "clean" /\ code = 0 /\ (Len(args) = 1 \/ args[3] = "default")
    THEN {}
    ELSE tasks

\* The environment: the child process runs and exits.
child_exit ==
    /\ pc = "communicate"
    /\ child.state = "running"
    /\ \E c \in ChildExits(argv, daemon) : child' = c /\ exits' = Append(exits, c)
    /\ daemon' = pueue_clean(argv, child'.returncode, daemon)
    /\ UNCHANGED <<pc, op, inner, argv, issued, runs, result, processes, frames, bridge, ui>>

\* The environment: tasks finish and are cleaned between two calls, so the
\* daemon's log set changes.
daemon_changed ==
    /\ pc = "idle"
    /\ \E S \in SUBSET TaskIds : S # daemon /\ daemon' = S
    /\ UNCHANGED <<pc, op, inner, argv, child, issued, exits, runs, result, processes, frames, bridge, ui>>

\* Mutant: the runner does not wait for the child to exit.
RunnerSettled_early == pc = "spawn_failed" \/ pc = "communicate"

\* `stdout, stderr = await proc.communicate()` has returned, or the spawn raised.
RunnerSettled ==
    \/ pc = "spawn_failed"
    \/ pc = "communicate" /\ child.state = "exited"

\* ------------------------------------------------------- control operations
\* Mutant: no except clause, the fault reaches the caller.
except_Exception_reraise(e) == e

\* `except Exception as e: return TaskControl(success=False, message=str(e))`
except_Exception(e) == Return(TaskControl(FALSE, e.message, Absent))

\* The value a try-block produces: `body` when the awaited command returned,
\* the except clause's value when it raised.
try_except(rr, body) == IF rr.kind = "raise" THEN except_Exception(rr) ELSE Return(body)

\* remove_task: args = ["remove"] + [str(tid) for tid in task_ids]
remove_task_args(task_ids) ==
    IF task_ids.t = "none" THEN NotIterable
    ELSE Return(<<"remove">> \o str_list(task_ids.v))

remove_task_result(task_ids, rr) ==
    try_except(rr, TaskControl(TRUE, "Removed tasks: " \o repr_int_list(task_ids.v),
                               Some(task_ids.v)))

\* Mutant: an empty id list is rejected before the group is looked at.
scope_args_ids_required(verb, task_ids, group) ==
    IF task_ids.t = "list" /\ task_ids.v = <<>> THEN Raise("ValueError", "no ids supplied")
    ELSE IF Truthy(group) THEN Return(<<verb, "--group", group>>)
    ELSE IF task_ids.t = "none" THEN Raise("TypeError", "'NoneType' object is not iterable")
    ELSE Return(<<verb>> \o str_list(task_ids.v))

\* kill_task / pause_task / start_task build their vector the same way:
\* `--group NAME` when group is truthy, the ids otherwise.
scope_args(verb, task_ids, group) ==
    IF Truthy(group) THEN Return(<<verb, "--group", group>>)
    ELSE IF task_ids.t = "none" THEN NotIterable
    ELSE Return(<<verb>> \o str_list(task_ids.v))

\* task_ids=task_ids if not group else None
scope_task_ids(task_ids, group) == IF ~Truthy(group) THEN Some(task_ids.v) ELSE Absent

kill_task_args(task_ids, group) == scope_args("kill", task_ids, group)

kill_task_result(task_ids, group, rr) ==
    try_except(rr, TaskControl(TRUE,
        IF ~Truthy(group) THEN "Killed tasks: " \o repr_int_list(task_ids.v)
        ELSE "Killed all tasks in group '" \o group \o "'",
        scope_task_ids(task_ids, group)))

pause_task_args(task_ids, group) == scope_args("pause", task_ids, group)

pause_task_result(task_ids, group, rr) ==
    try_except(rr, TaskControl(TRUE,
        IF ~Truthy(group) THEN "Paused tasks: " \o repr_int_list(task_ids.v)
        ELSE "Paused group '" \o group \o "'",
        scope_task_ids(task_ids, group)))

start_task_args(task_ids, group) == scope_args("start", task_ids, group)

start_task_result(task_ids, group, rr) ==
    try_except(rr, TaskControl(TRUE,
        IF ~Truthy(group) THEN "Started tasks: " \o repr_int_list(task_ids.v)
        ELSE "Started group '" \o group \o "'",
        scope_task_ids(task_ids, group)))

\* restart_task: ["restart"] (+ "--in-place") + ids
restart_task_args(task_ids, in_place) ==
    IF task_ids.t = "none" THEN NotIterable
    ELSE Return(<<"restart">> \o (IF in_place THEN <<"--in-place">> ELSE <<>>)
                    \o str_list(task_ids.v))

restart_task_result(task_ids, in_place, rr) ==
    try_except(rr, TaskControl(TRUE, "Restarted tasks: " \o repr_int_list(task_ids.v),
                               Some(task_ids.v)))

\* Mutant: the group is dropped, every group is cleaned.
clean_tasks_args_all(group) == <<"clean">>

\* clean_tasks: ["clean"] (+ "--group", group)
clean_tasks_args(group) ==
    <<"clean">> \o (IF Truthy(group) THEN <<"--group", group>> ELSE <<>>)

clean_tasks_result(group, rr) ==
    try_except(rr, TaskControl(TRUE,
        IF Truthy(group) THEN "Cleaned tasks in group '" \o group \o "'"
        ELSE "Cleaned all finished tasks",
        Absent))

\* reset_queue: ["reset"] (+ "--force") (+ "--groups", ",".join(groups))
reset_queue_args(groups, force) ==
    <<"reset">> \o (IF force THEN <<"--force">> ELSE <<>>)
        \o (IF TruthyList(groups) THEN <<"--groups", join(",", groups.v)>> ELSE <<>>)

reset_queue_result(groups, rr) ==
    try_except(rr, TaskControl(TRUE,
        IF TruthyList(groups) THEN "Reset queue for groups: " \o repr_str_list(groups.v)
        ELSE "Reset entire queue",
        Absent))

\* Mutant: the async core's `force` defaults to True.
reset_queue_force_default_true == TRUE

\* The default of the `force` parameter at each layer.
reset_queue_force_default == FALSE
sync_reset_queue_force_default == FALSE
http_reset_queue_force_default == FALSE

\* A boolean keyword argument as the callee sees it.
bool_param(supplied, default) == IF supplied = Omitted THEN default ELSE supplied = "True"

add_group_args(group_name) == <<"group", "add", group_name>>

add_group_result(group_name, rr) ==
    try_except(rr, TaskControl(TRUE, "Group '" \o group_name \o "' created successfully", Absent))

remove_group_args(group_name) == <<"group", "remove", group_name>>

\* Mutant: the result of the clean step is not looked at.
clean_failed_ignored(clean_result) == FALSE

\* `if not clean_result.success:`
clean_failed(clean_result) == ~clean_result.success

\* `return TaskControl(success=False, message=f"Failed to clean tasks ...")`
remove_group_clean_failed(group_name, clean_result) ==
    Return(TaskControl(FALSE,
        "Failed to clean tasks in group '" \o group_name \o "': " \o clean_result.message,
        Absent))

remove_group_result(group_name, force_clean, rr) ==
    try_except(rr, TaskControl(TRUE,
        "Group '" \o group_name \o "' removed successfully"
            \o (IF force_clean THEN " (tasks were cleaned first)" ELSE ""),
        Absent))

\* set_group_parallel: ["parallel", str(n)] (+ "--group", group)
set_group_parallel_args(parallel_tasks, group) ==
    <<"parallel", ToString(parallel_tasks)>>
        \o (IF Truthy(group) THEN <<"--group", group>> ELSE <<>>)

set_group_parallel_result(parallel_tasks, group, rr) ==
    try_except(rr, TaskControl(TRUE,
        "Set parallel tasks to " \o ToString(parallel_tasks) \o " for group '"
            \o (IF Truthy(group) THEN group ELSE "default") \o "'",
        Absent))

ControlOps ==
    {"remove_task", "kill_task", "pause_task", "start_task", "restart_task",
     "clean_tasks", "reset_queue", "add_group", "remove_group", "set_group_parallel"}

ScopedOps == {"kill_task", "pause_task", "start_task"}

\* ------------------------------------------------------- response models
ValidationError == Raise("ValidationError", "validation error for model")

HasKeys(d, keys) == d.t = "dict" /\ keys \subseteq DOMAIN d.v

\* TaskStatusInfo: every field is optional, so any JSON object validates.
TaskStatusInfo_valid(d) == d.t = "dict"

\* status: Dict[str, TaskStatusInfo]
StatusDict_valid(d) == d.t = "dict" /\ \A k \in DOMAIN d.v : TaskStatusInfo_valid(d.v[k])

\* models.status.Task
Task_valid(d) ==
    /\ HasKeys(d, {"id", "created_at", "original_command", "command", "path", "envs",
                   "group", "dependencies", "priority", "status"})
    /\ d.v.id.t = "int"
    /\ StatusDict_valid(d.v.status)

\* models.status.Group
Group_valid(d) ==
    /\ HasKeys(d, {"status", "parallel_tasks"})
    /\ d.v.status.t = "str"
    /\ d.v.status.v \in {"Running", "Paused", "Reset"}
    /\ d.v.parallel_tasks.t = "int"

\* PueueStatus.model_validate(status_data)
PueueStatus_model_validate(d) ==
    IF /\ HasKeys(d, {"tasks", "groups"})
       /\ d.v.tasks.t = "dict"
       /\ \A k \in DOMAIN d.v.tasks.v : Task_valid(d.v.tasks.v[k])
       /\ d.v.groups.t = "dict"
       /\ \A k \in DOMAIN d.v.groups.v : Group_valid(d.v.groups.v[k])
    THEN Return(d.v)
    ELSE ValidationError

\* models.logs.LogTask (envs and dependencies have defaults)
LogTask_valid(d) ==
    /\ HasKeys(d, {"id", "created_at", "original_command", "command", "path",
                   "group", "priority", "status"})
    /\ d.v.id.t = "int"
    /\ StatusDict_valid(d.v.status)

\* models.logs.TaskLogEntry
TaskLogEntry_valid(d) ==
    /\ HasKeys(d, {"task", "output"})
    /\ LogTask_valid(d.v.task)
    /\ d.v.output.t = "str"

\* PueueLogResponse.model_validate(log_data)
PueueLogResponse_model_validate(d) ==
    IF d.t = "dict" /\ \A k \in DOMAIN d.v : TaskLogEntry_valid(d.v[k])
    THEN Return(d.v)
    ELSE ValidationError

\* ------------------------------------------------------- query operations
\* get_status: ["status", "--json"] (+ "--group", group)
get_status_args(group) ==
    <<"status", "--json">> \o (IF Truthy(group) THEN <<"--group", group>> ELSE <<>>)

get_status_result(rr) ==
    IF rr.kind = "raise" THEN rr
    ELSE LET status_data == json_loads(rr.value)
         IN IF status_data.kind = "raise" THEN status_data
            ELSE PueueStatus_model_validate(status_data.value)

\* get_groups: ["group", "-j"]
get_groups_args == <<"group", "-j">>

get_groups_result(rr) ==
    IF rr.kind = "raise" THEN rr
    ELSE LET groups_data == json_loads(rr.value)
         IN IF groups_data.kind = "raise" THEN groups_data
            ELSE IF groups_data.value.t # "dict"
            THEN Raise("AttributeError", "object has no attribute 'items'")
            ELSE IF \A k \in DOMAIN groups_data.value.v : Group_valid(groups_data.value.v[k])
            THEN Return(groups_data.value.v)
            ELSE ValidationError

\* get_logs_json: ["log", "--json"] (+ "--group", group) (+ ids)
get_logs_json_args(task_ids, group) ==
    <<"log", "--json">> \o (IF Truthy(group) THEN <<"--group", group>> ELSE <<>>)
        \o (IF task_ids.t = "none" THEN <<>> ELSE str_list(task_ids.v))

\* {task_id: log_data[task_id] for task_id in task_id_strs if task_id in log_data}
\* (no document of the model decodes to a JSON string, the one other container)
filter_logs(task_id_strs, log_data) ==
    IF task_id_strs = <<>> THEN Return(JDict(EmptyDict))
    ELSE IF log_data.t = "dict"
    THEN Return(JDict([k \in {task_id_strs[i] : i \in DOMAIN task_id_strs} \cap DOMAIN log_data.v
                          |-> log_data.v[k]]))
    ELSE IF log_data.t = "list"
    THEN IF \E i \in DOMAIN task_id_strs, j \in DOMAIN log_data.v :
                log_data.v[j].t = "str" /\ log_data.v[j].v = task_id_strs[i]
         THEN Raise("TypeError", "list indices must be integers or slices, not str")
         ELSE Return(JDict(EmptyDict))
    ELSE Raise("TypeError", "argument of type 'NoneType' is not iterable")

get_logs_json_result(task_ids, rr) ==
    IF rr.kind = "raise" THEN rr
    ELSE LET log_data == json_loads(rr.value)
         IN IF log_data.kind = "raise" THEN log_data
            ELSE IF task_ids.t = "none"
            THEN PueueLogResponse_model_validate(log_data.value)
            ELSE LET filtered_data == filter_logs(str_list(task_ids.v), log_data.value)
                 IN IF filtered_data.kind = "raise" THEN filtered_data
                    ELSE PueueLogResponse_model_validate(filtered_data.value)

\* int(task_id) of a Union[int, str] argument; `v` is the decimal text of an
\* int argument and the string itself of a str argument.
python_int(task_id) ==
    IF \E i \in TaskIds : ToString(i) = task_id.v
    THEN Return(CHOOSE i \in TaskIds : ToString(i) = task_id.v)
    ELSE Raise("ValueError", "invalid literal for int() with base 10: '" \o task_id.v \o "'")

\* Mutant: indexing instead of .get, a missing key raises.
PueueLogResponse_getitem(logs, key) ==
    IF key \in DOMAIN logs THEN Return(Some(logs[key])) ELSE Raise("KeyError", "'" \o key \o "'")

\* PueueLogResponse.get(key): self.root.get(key, None)
PueueLogResponse_get(logs, key) ==
    IF key \in DOMAIN logs THEN Return(Some(logs[key])) ELSE Return(Absent)

\* get_task_log_entry: logs = await self.get_logs_json(task_id_int);
\* return logs.get(str(task_id_int))
get_task_log_entry_result(task_id_int, rr) ==
    LET logs == get_logs_json_result(IntArg(task_id_int), rr)
    IN IF logs.kind = "raise" THEN logs
       ELSE PueueLogResponse_get(logs.value, ToString(task_id_int))

\* wait_for_task: return await self._run_pueue_command("wait", task_id)
wait_for_task_args(task_id) == <<"wait", task_id>>

wait_for_task_result(rr) == rr

\* subscribe_to_task: result = await self.wait_for_task(task_id); log it;
\* AdvancedMixin ends with `return result`, PueueWrapper has no return.
subscribe_to_task_result(cls, rr) ==
    IF rr.kind = "raise" THEN rr
    ELSE IF cls = "AdvancedMixin" THEN Return(rr.value)
    ELSE Return(None)

\* GET /api/subscribe/{task_id}, event_stream over PueueWrapper:
\* yield f"data: {result}\n\n", or f"data: Task failed: {str(e)}\n\n"
event_stream(r) ==
    IF r.kind = "raise" THEN Return("data: Task failed: " \o r.message \o "\n\n")
    ELSE Return("data: " \o (IF r.value = None THEN "None" ELSE r.value) \o "\n\n")

QueryOps == {"get_status", "get_groups", "get_logs_json"}

\* ------------------------------------------------------- statistics
\* A float rate n / d * 100, kept as the exact quotient (float rounding is
\* monotone, so it moves no rate across 0 or 100).
Percent(n, d) == [num |-> 100 * n, den |-> d]

\* 0.0, the default of the rate fields
ZeroRate == [num |-> 0, den |-> 1]

\* GroupStatistics(group_name=group_name)
GroupStatistics(group_name) ==
    [group_name |-> group_name, total_tasks |-> 0, running_tasks |-> 0, queued_tasks |-> 0,
     completed_tasks |-> 0, failed_tasks |-> 0, paused_tasks |-> 0, stashed_tasks |-> 0,
     completion_rate |-> ZeroRate, success_rate |-> ZeroRate, failure_rate |-> ZeroRate]

\* Mutant: the rates are computed whatever the denominators are.
calculate_rates_unguarded(stats) ==
    [stats EXCEPT
        !.completion_rate = Percent(stats.completed_tasks + stats.failed_tasks, stats.total_tasks),
        !.success_rate = Percent(stats.completed_tasks, stats.completed_tasks + stats.failed_tasks),
        !.failure_rate = Percent(stats.failed_tasks, stats.completed_tasks + stats.failed_tasks)]

\* GroupStatistics.calculate_rates
calculate_rates(stats) ==
    LET total_finished == stats.completed_tasks + stats.failed_tasks
    IN IF stats.total_tasks > 0
       THEN [stats EXCEPT
                !.completion_rate = Percent(total_finished, stats.total_tasks),
                !.success_rate =
                    IF total_finished > 0 THEN Percent(stats.completed_tasks, total_finished) ELSE @,
                !.failure_rate =
                    IF total_finished > 0 THEN Percent(stats.failed_tasks, total_finished) ELSE @]
       ELSE stats

\* StatisticsMixin._is_task_successful
is_task_successful(res) ==
    CASE res.t = "null" -> FALSE
      [] res.t = "str" -> res.v = "Success"
      [] res.t = "dict" -> "Failed" \notin DOMAIN res.v
      [] OTHER -> FALSE

\* PueueStatus._is_task_failed
is_task_failed(res) ==
    CASE res.t = "null" -> TRUE
      [] res.t = "str" -> res.v # "Success"
      [] res.t = "dict" -> "Failed" \in DOMAIN res.v
      [] OTHER -> TRUE

\* status_info.result of a validated TaskStatusInfo: None when the key is absent
status_info_result(status_info) ==
    IF "result" \in DOMAIN status_info.v THEN status_info.v.result ELSE JNull

\* PueueStatus.get_failed_tasks, as the keys of the tasks it returns
get_failed_tasks_result(status) ==
    {k \in DOMAIN status.tasks.v :
        /\ "Done" \in DOMAIN status.tasks.v[k].v.status.v
        /\ is_task_failed(status_info_result(status.tasks.v[k].v.status.v.Done))}

\* The Done branch of get_group_statistics: completed when the result is
\* missing or _is_task_successful, failed otherwise.
done_is_completed(status_info) ==
    IF status_info_result(status_info).t # "null"
    THEN is_task_successful(status_info_result(status_info))
    ELSE TRUE

\* get_group_statistics after `status = await self.get_status(group=group_name)`
get_group_statistics_result(group_name, rr) ==
    LET status == get_status_result(rr)
    IN IF status.kind = "raise" THEN status
       ELSE LET tasks == status.value.tasks.v
                keys(k) == tasks[k].v.status.keys
            IN IF \E k \in DOMAIN tasks : keys(k) = <<>>
               THEN Raise("IndexError", "list index out of range")
               ELSE LET status_key(k) == keys(k)[1]
                        tagged(tag) == {k \in DOMAIN tasks : status_key(k) = tag}
                        completed == {k \in tagged("Done") : done_is_completed(tasks[k].v.status.v.Done)}
                    IN Return(calculate_rates(
                        [GroupStatistics(group_name) EXCEPT
                            !.total_tasks = Cardinality(DOMAIN tasks),
                            !.running_tasks = Cardinality(tagged("Running")),
                            !.queued_tasks = Cardinality(tagged("Queued")),
                            !.paused_tasks = Cardinality(tagged("Paused")),
                            !.stashed_tasks = Cardinality(tagged("Stashed")),
                            !.completed_tasks = Cardinality(completed),
                            !.failed_tasks = Cardinality(tagged("Done") \ completed)]))

\* Durations are (end - start).total_seconds(), kept in hundredths of a second.
Second == 100

\* The datetime pydantic makes of a timestamp of the model, in seconds after
\* 2025-01-01T00:00:00Z.
datetime_seconds(text) ==
    CASE text = "2025-01-01T00:00:00Z" -> 0
      [] text = "2025-01-01T00:00:01Z" -> 1
      [] text = "2025-01-01T00:00:02Z" -> 2
      [] text = "2025-01-01T00:00:05Z" -> 5

\* getattr(status_info, name, None) of a datetime field of a validated
\* TaskStatusInfo; handle_enqueue_fields takes enqueue_at for enqueued_at.
status_info_time(status_info, name) ==
    LET d == status_info.v
        raw == IF name \in DOMAIN d THEN d[name]
               ELSE IF name = "enqueued_at" /\ "enqueue_at" \in DOMAIN d THEN d["enqueue_at"]
               ELSE JNull
    IN IF raw.t = "str" THEN Some(datetime_seconds(raw.v)) ELSE Absent

\* statistics.mean of the values of f, as a fraction
mean(f) ==
    LET RECURSIVE total(_)
        total(K) == IF K = {} THEN 0
                    ELSE LET k == CHOOSE x \in K : TRUE IN f[k] + total(K \ {k})
    IN [num |-> total(DOMAIN f), den |-> Cardinality(DOMAIN f)]

\* get_group_time_statistics: if self._is_task_successful(result)
time_statistics_success(status_info) == is_task_successful(status_info_result(status_info))

\* Mutant: a negative queue wait is kept.
queue_duration_kept_any(queue_duration) == TRUE

\* if queue_duration >= 0: queue_times.append(queue_duration)
queue_duration_kept(queue_duration) == queue_duration >= 0

\* get_group_time_statistics after `status = await self.get_status(...)`.
\* The lists are kept by task key; the averages of the durations, the time
\* span and tasks_per_hour are left out.
get_group_time_statistics_result(rr) ==
    LET status == get_status_result(rr)
    IN IF status.kind = "raise" THEN status
       ELSE LET tasks == status.value.tasks.v
                seen == {k \in DOMAIN tasks : tasks[k].v.status.keys # <<>>}
                status_key(k) == tasks[k].v.status.keys[1]
                status_info(k) == tasks[k].v.status.v[status_key(k)]
                start_time(k) == status_info_time(status_info(k), "start")
                end_time(k) == status_info_time(status_info(k), "end")
                enqueue_time(k) == status_info_time(status_info(k), "enqueued_at")
                queued == {k \in seen : enqueue_time(k).some /\ start_time(k).some}
                queue_times == [k \in {q \in queued : queue_duration_kept(
                                            (start_time(q).v - enqueue_time(q).v) * Second)}
                                    |-> (start_time(k).v - enqueue_time(k).v) * Second]
                timed == {k \in seen : start_time(k).some /\ end_time(k).some
                                        /\ status_key(k) = "Done"}
                successful == {k \in timed : time_statistics_success(status_info(k))}
                duration(k) == (end_time(k).v - start_time(k).v) * Second
            IN Return([successful_durations |-> [k \in successful |-> duration(k)],
                       failed_durations |-> [k \in timed \ successful |-> duration(k)],
                       queue_times |-> queue_times,
                       successful_tasks_count |-> Cardinality(successful),
                       average_queue_time |->
                            IF DOMAIN queue_times # {} THEN Some(mean(queue_times)) ELSE Absent])

\* sorted(successful_durations)
RECURSIVE sorted_durations(_)
sorted_durations(durations) ==
    IF durations = <<>> THEN <<>>
    ELSE LET k == CHOOSE i \in DOMAIN durations : \A j \in DOMAIN durations : durations[i] <= durations[j]
         IN <<durations[k]>>
                \o sorted_durations([i \in 1..(Len(durations) - 1) |->
                                        IF i < k THEN durations[i] ELSE durations[i + 1]])

\* seq[index] with a 0-based index that is not negative
list_getitem(seq, index) ==
    IF index < Len(seq) THEN Return(seq[index + 1])
    ELSE Raise("IndexError", "list index out of range")

\* Mutant: the rank is rounded up.
percentile_index_ceil(n, p) == (n * p + 99) \div 100

\* int(n * 0.25), int(n * 0.50), int(n * 0.75), int(n * 0.95): the float
\* product truncated, which is floor(n * p / 100) for every n below 2 000 000.
percentile_index(n, p) == (n * p) \div 100

Percentiles == {25, 50, 75, 95}

\* time_stats.duration_percentiles of a non-empty sample
duration_percentiles_result(durations) ==
    LET n == Len(durations)
        at(p) == list_getitem(sorted_durations(durations), percentile_index(n, p))
    IN IF \E p \in Percentiles : at(p).kind = "raise"
       THEN at(CHOOSE p \in Percentiles : at(p).kind = "raise")
       ELSE Return([p \in Percentiles |-> at(p).value])

\* The nearest integer to a / b.  The .1f format rounds the double it is
\* given, and the double next to a decimal tie can lie on either side of it,
\* so a tie goes up or down: `up` says which.
round_nearest(a, b, up) ==
    LET q == a \div b
        r == a % b
    IN IF 2 * r < b THEN q
       ELSE IF 2 * r > b THEN q + 1
       ELSE IF up THEN q + 1 ELSE q

\* f"{x:.1f}" of x = tenths / 10
format_tenths(tenths) == ToString(tenths \div 10) \o "." \o ToString(tenths % 10)

\* Bucket bounds and sizes are in eighths of a hundredth of a second, the
\* unit in which (max_dur - min_dur) / 8 is exact.  A label shows seconds,
\* minutes or hours by the bucket size; this is a tenth of the unit shown.
label_tenth(bucket_size) ==
    IF bucket_size < 60 * Second * 8 THEN 10 * 8
    ELSE IF bucket_size < 3600 * Second * 8 THEN 6 * Second * 8
    ELSE 360 * Second * 8

label_suffix(bucket_size) ==
    IF bucket_size < 60 * Second * 8 THEN "s"
    ELSE IF bucket_size < 3600 * Second * 8 THEN "m"
    ELSE "h"

\* f"{bucket_start:.1f}s-{bucket_end:.1f}s" and its minute and hour forms
bucket_label(bucket_start, bucket_end, bucket_size, up_start, up_end) ==
    format_tenths(round_nearest(bucket_start, label_tenth(bucket_size), up_start))
        \o label_suffix(bucket_size) \o "-"
        \o format_tenths(round_nearest(bucket_end, label_tenth(bucket_size), up_end))
        \o label_suffix(bucket_size)

Buckets == 0..7

min_duration(durations) == CHOOSE d \in Range(durations) : \A e \in Range(durations) : d <= e
max_duration(durations) == CHOOSE d \in Range(durations) : \A e \in Range(durations) : d >= e

\* bucket_size = (max_dur - min_dur) / 8 if max_dur > min_dur else 1
bucket_size_of(durations) ==
    IF max_duration(durations) > min_duration(durations)
    THEN max_duration(durations) - min_duration(durations)
    ELSE 1 * Second * 8

\* min_dur + j * bucket_size, the bound between bucket j - 1 and bucket j
bucket_bound(durations, j) == 8 * min_duration(durations) + j * bucket_size_of(durations)

\* The ways the bounds that are decimal ties can be rounded in the labels.
TieRoundings(durations) ==
    LET ties == {j \in 0..8 : 2 * (bucket_bound(durations, j) % label_tenth(bucket_size_of(durations)))
                                = label_tenth(bucket_size_of(durations))}
    IN {[j \in 0..8 |-> j \in U] : U \in SUBSET ties}

\* StatisticsMixin._create_duration_buckets: 8 equal-width buckets over
\* [min, max], `buckets[label] = count` for each in turn, so that a label that
\* comes again replaces the count stored under it.
create_duration_buckets_result(durations, up) ==
    IF durations = <<>> THEN EmptyDict
    ELSE LET bucket_start(i) == bucket_bound(durations, i)
             bucket_end(i) == bucket_bound(durations, i + 1)
             count(i) ==
                IF i = 7
                THEN Cardinality({k \in DOMAIN durations :
                        bucket_start(i) <= 8 * durations[k] /\ 8 * durations[k] <= bucket_end(i)})
                ELSE Cardinality({k \in DOMAIN durations :
                        bucket_start(i) <= 8 * durations[k] /\ 8 * durations[k] < bucket_end(i)})
             label(i) == bucket_label(bucket_start(i), bucket_end(i), bucket_size_of(durations),
                                      up[i], up[i + 1])
         IN [l \in {label(i) : i \in Buckets} |->
                count(CHOOSE i \in Buckets : label(i) = l /\ \A j \in Buckets : label(j) = l => j <= i)]

\* ------------------------------------------------------- add_task
\* for dep_id in after: args.extend(["--after", str(dep_id)])
RECURSIVE after_flags(_)
after_flags(deps) ==
    IF deps = <<>> THEN <<>>
    ELSE <<"--after", ToString(Head(deps))>> \o after_flags(Tail(deps))

\* Mutant: the dependencies go into one comma-joined value.
add_task_after_args_joined(after) ==
    IF TruthyList(after) THEN <<"--after", join(",", str_list(after.v))>> ELSE <<>>

\* `if after:` guards the loop: None and [] emit nothing.
add_task_after_args(after) == IF TruthyList(after) THEN after_flags(after.v) ELSE <<>>

\* The argument vector of add_task, in the order the code appends to it.
add_task_args(o) ==
    <<"add">>
        \o (IF o.print_task_id THEN <<"--print-task-id">> ELSE <<>>)
        \o (IF Truthy(o.working_directory)
            THEN <<"--working-directory", o.working_directory>> ELSE <<>>)
        \o (IF Truthy(o.group) THEN <<"--group", o.group>> ELSE <<>>)
        \o (IF o.priority.some THEN <<"--priority", ToString(o.priority.v)>> ELSE <<>>)
        \o add_task_after_args(o.after)
        \o (IF Truthy(o.delay) THEN <<"--delay", o.delay>> ELSE <<>>)
        \o (IF Truthy(o.label) THEN <<"--label", o.label>> ELSE <<>>)
        \o (IF o.immediate THEN <<"--immediate">> ELSE <<>>)
        \o (IF o.follow THEN <<"--follow">> ELSE <<>>)
        \o (IF o.stashed THEN <<"--stashed">> ELSE <<>>)
        \o (IF o.escape THEN <<"--escape">> ELSE <<>>)
        \o <<o.command>>

\* str.strip() over the texts `pueue add` prints.
strip(text) ==
    CASE text = "7\n" -> "7"
      [] text = "New task added (id 7).\n" -> "New task added (id 7)."
      [] OTHER -> text

\* return task_id_output.strip(); a fault of the Command Runner propagates.
add_task_result(rr) == IF rr.kind = "raise" THEN rr ELSE Return(strip(rr.value))

\* ------------------------------------------------------- HTTP routes
HTTPException(status_code, detail) ==
    [kind |-> "raise", type |-> "HTTPException", status_code |-> status_code,
     message |-> detail]

\* str(e): an HTTPException prints as "<status_code>: <detail>".
exception_str(e) ==
    IF e.type = "HTTPException" THEN ToString(e.status_code) \o ": " \o e.message
    ELSE e.message

\* `except Exception as e: raise HTTPException(status_code=500, detail=str(e))`
route_except_Exception(r) ==
    IF r.kind = "raise" THEN HTTPException(500, exception_str(r)) ELSE r

\* [int(tid.strip()) for tid in task_ids.split(",")] over the query strings of
\* the model.
http_task_id_list(task_ids) ==
    CASE task_ids = "1" -> Return(ListArg(<<1>>))
      [] task_ids = "1, 2" -> Return(ListArg(<<1, 2>>))
      [] task_ids = "x" -> Raise("ValueError", "invalid literal for int() with base 10: 'x'")

\* GET /api/log/{task_id}/json, the try block:
\* if log_entry is None: raise HTTPException(status_code=404, ...)
log_entry_or_404(task_id, r) ==
    IF r.kind = "return" /\ r.value = Absent
    THEN HTTPException(404, "Task " \o task_id \o " not found")
    ELSE r

\* Mutant: the route has the generic handler only.
log_entry_handlers_generic(r) == route_except_Exception(r)

\* `except HTTPException: raise` comes before `except Exception as e: raise
\* HTTPException(status_code=500, detail=str(e))`.
log_entry_handlers(r) ==
    IF r.kind = "raise" /\ r.type = "HTTPException" THEN r ELSE route_except_Exception(r)

\* What the route answers, given what pueue.get_task_log_entry(task_id) gave.
http_get_task_log_entry_result(task_id, r) == log_entry_handlers(log_entry_or_404(task_id, r))

\* [g.strip() for g in groups.split(",")] over the query strings of the model.
split_strip(text) ==
    CASE text = "g" -> <<"g">>
      [] text = "g, default" -> <<"g", "default">>

\* groups_list = None; if groups: groups_list = [...]
http_groups_list(groups) == IF Truthy(groups) THEN ListArg(split_strip(groups)) ELSE NoneArg

\* ------------------------------------------------------- input domains
GroupArgs == {None, "", "g"}
BoolArgs == {Omitted, "True", "False"}
GroupsArgs == {NoneArg, ListArg(<<>>), ListArg(<<"g">>), ListArg(<<"g", "default">>)}
ParallelArgs == {1, 4}
GroupsParams == {None, "", "g", "g, default"}
Booleans == {TRUE, FALSE}
AfterArgs == {ListArg(s) : s \in IdLists} \cup {NoneArg}
PriorityArgs == {Absent, Some(0), Some(5)}
TaskIdArgs ==
    {[t |-> "int", v |-> ToString(i)] : i \in TaskIds}
        \cup {[t |-> "str", v |-> x] : x \in {"1", "2", "abc"}}

\* ------------------------------------------------------- calls
\* Run a try-block up to its first command: a fault while the vector is built
\* goes to the except clause, otherwise the vector goes to the Command Runner.
Begin(args) ==
    IF args.kind = "raise" THEN Finish(except_Exception(args)) ELSE Invoke(args.value)

remove_task(task_ids) ==
    /\ pc = "idle"
    /\ op' = [NoOp EXCEPT !.name = "remove_task", !.layer = "async",
                          !.task_ids = IF task_ids.t = "int" THEN as_list(task_ids) ELSE task_ids]
    /\ inner' = ""
    /\ Begin(remove_task_args(op'.task_ids))

\* kill_task, pause_task, start_task
scoped_task(name, task_ids, group) ==
    /\ pc = "idle"
    /\ op' = [NoOp EXCEPT !.name = name, !.layer = "async", !.group = group,
                          !.task_ids = IF ~Truthy(group) /\ task_ids.t = "int"
                                       THEN as_list(task_ids) ELSE task_ids]
    /\ inner' = ""
    /\ Begin(CASE name = "kill_task" -> kill_task_args(op'.task_ids, group)
               [] name = "pause_task" -> pause_task_args(op'.task_ids, group)
               [] name = "start_task" -> start_task_args(op'.task_ids, group))

\* POST /api/tasks/kill, /api/tasks/pause, /api/tasks/start: the route of
\* `name` up to the await of the wrapper's call, or to its end if there is none.
http_scoped_task(name, task_ids, group) ==
    /\ pc = "idle"
    /\ inner' = ""
    /\ IF Truthy(task_ids)
       THEN IF http_task_id_list(task_ids).kind = "raise"
            THEN /\ op' = [NoOp EXCEPT !.name = "http_" \o name, !.layer = "http",
                                       !.command = name, !.group = group,
                                       !.task_ids = [t |-> "str", v |-> <<>>]]
                 /\ Finish(route_except_Exception(http_task_id_list(task_ids)))
            ELSE /\ op' = [NoOp EXCEPT !.name = "http_" \o name, !.layer = "http",
                                       !.command = name, !.group = group,
                                       !.task_ids = http_task_id_list(task_ids).value]
                 /\ Begin(CASE name = "kill_task" -> kill_task_args(op'.task_ids, group)
                            [] name = "pause_task" -> pause_task_args(op'.task_ids, group)
                            [] name = "start_task" -> start_task_args(op'.task_ids, group))
       ELSE IF Truthy(group)
       THEN /\ op' = [NoOp EXCEPT !.name = "http_" \o name, !.layer = "http",
                                  !.command = name, !.group = group,
                                  !.task_ids = ListArg(<<>>)]
            /\ Begin(CASE name = "kill_task" -> kill_task_args(op'.task_ids, group)
                            [] name = "pause_task" -> pause_task_args(op'.task_ids, group)
                            [] name = "start_task" -> start_task_args(op'.task_ids, group))
       ELSE /\ op' = [NoOp EXCEPT !.name = "http_" \o name, !.layer = "http",
                                  !.command = name, !.group = group]
            /\ Finish(route_except_Exception(
                    HTTPException(400, "Either task_ids or group must be specified")))

kill_task(task_ids, group) == scoped_task("kill_task", task_ids, group)
pause_task(task_ids, group) == scoped_task("pause_task", task_ids, group)
start_task(task_ids, group) == scoped_task("start_task", task_ids, group)

restart_task(task_ids, in_place) ==
    /\ pc = "idle"
    /\ op' = [NoOp EXCEPT !.name = "restart_task", !.layer = "async",
                          !.supplied = in_place,
                          !.flag = bool_param(in_place, FALSE),
                          !.task_ids = IF task_ids.t = "int" THEN as_list(task_ids) ELSE task_ids]
    /\ inner' = ""
    /\ Begin(restart_task_args(op'.task_ids, op'.flag))

clean_tasks(group) ==
    /\ pc = "idle"
    /\ op' = [NoOp EXCEPT !.name = "clean_tasks", !.layer = "async", !.group = group]
    /\ inner' = ""
    /\ Invoke(clean_tasks_args(group))

\* The caller takes the success of clean_tasks(group) and calls it again at
\* once, with nothing else happening in between.
clean_tasks_again ==
    /\ pc = "returned"
    /\ op.name = "clean_tasks"
    /\ inner = ""
    /\ result.value.success
    /\ LoopRuns
    /\ inner' = "again"
    /\ pc' = "runner"
    /\ argv' = clean_tasks_args(op.group)
    /\ runs' = 1
    /\ child' = NoChild
    /\ issued' = <<>>
    /\ exits' = <<>>
    /\ result' = NoResult
    /\ UNCHANGED <<op, around>>

\* PueueAsyncCore.reset_queue
reset_queue(groups, force) ==
    /\ pc = "idle"
    /\ op' = [NoOp EXCEPT !.name = "reset_queue", !.layer = "async", !.groups = groups,
                          !.supplied = force,
                          !.flag = bool_param(force, reset_queue_force_default)]
    /\ inner' = ""
    /\ Invoke(reset_queue_args(groups, op'.flag))

\* PueueSyncCore.reset_queue: _run_async_method("reset_queue", groups, force)
sync_reset_queue(groups, force) ==
    /\ pc = "idle"
    /\ op' = [NoOp EXCEPT !.name = "reset_queue", !.layer = "sync", !.groups = groups,
                          !.supplied = force,
                          !.flag = bool_param(
                              IF bool_param(force, sync_reset_queue_force_default)
                              THEN "True" ELSE "False",
                              reset_queue_force_default)]
    /\ inner' = ""
    /\ Invoke(reset_queue_args(groups, op'.flag))

\* DELETE /api/tasks/reset: pueue.reset_queue(groups_list, force)
http_reset_queue(groups, force) ==
    /\ pc = "idle"
    /\ op' = [NoOp EXCEPT !.name = "reset_queue", !.layer = "http",
                          !.groups = http_groups_list(groups),
                          !.supplied = force,
                          !.flag = bool_param(
                              IF bool_param(force, http_reset_queue_force_default)
                              THEN "True" ELSE "False",
                              reset_queue_force_default)]
    /\ inner' = ""
    /\ Invoke(reset_queue_args(op'.groups, op'.flag))

add_group(group_name) ==
    /\ pc = "idle"
    /\ op' = [NoOp EXCEPT !.name = "add_group", !.layer = "async", !.group = group_name]
    /\ inner' = ""
    /\ Invoke(add_group_args(group_name))

remove_group(group_name, force_clean) ==
    /\ pc = "idle"
    /\ op' = [NoOp EXCEPT !.name = "remove_group", !.layer = "async", !.group = group_name,
                          !.supplied = force_clean,
                          !.flag = bool_param(force_clean, TRUE)]
    /\ IF op'.flag
       THEN inner' = "clean_tasks" /\ Invoke(clean_tasks_args(group_name))
       ELSE inner' = "" /\ Invoke(remove_group_args(group_name))

\* remove_group resumes after `clean_result = await self.clean_tasks(group_name)`
remove_group_cleaned ==
    /\ RunnerSettled
    /\ op.name = "remove_group"
    /\ inner = "clean_tasks"
    /\ inner' = ""
    /\ LET clean_result == clean_tasks_result(op.group, run_pueue_command(child)).value
       IN IF clean_failed(clean_result)
          THEN Finish(remove_group_clean_failed(op.group, clean_result))
          ELSE Invoke(remove_group_args(op.group))
    /\ UNCHANGED op

set_group_parallel(parallel_tasks, group) ==
    /\ pc = "idle"
    /\ op' = [NoOp EXCEPT !.name = "set_group_parallel", !.layer = "async",
                          !.group = group, !.n = parallel_tasks]
    /\ inner' = ""
    /\ Invoke(set_group_parallel_args(parallel_tasks, group))

\* What a control operation returns once its (last) command is settled.
control_result(o, rr) ==
    CASE o.name = "remove_task" -> remove_task_result(o.task_ids, rr)
      [] o.name = "kill_task" -> kill_task_result(o.task_ids, o.group, rr)
      [] o.name = "pause_task" -> pause_task_result(o.task_ids, o.group, rr)
      [] o.name = "start_task" -> start_task_result(o.task_ids, o.group, rr)
      [] o.name = "restart_task" -> restart_task_result(o.task_ids, o.flag, rr)
      [] o.name = "clean_tasks" -> clean_tasks_result(o.group, rr)
      [] o.name = "reset_queue" -> reset_queue_result(o.groups, rr)
      [] o.name = "add_group" -> add_group_result(o.group, rr)
      [] o.name = "remove_group" -> remove_group_result(o.group, o.flag, rr)
      [] o.name = "set_group_parallel" -> set_group_parallel_result(o.n, o.group, rr)

\* A control operation resumes after its awaited command and returns.
control_resumed ==
    /\ RunnerSettled
    /\ op.name \in ControlOps
    /\ inner \in {"", "again"}
    /\ Finish(IF op.layer = "http"
              THEN route_except_Exception(control_result(op, run_pueue_command(child)))
              ELSE control_result(op, run_pueue_command(child)))
    /\ UNCHANGED <<op, inner>>

\* The route resumes after the wrapper's call and returns its TaskControl.
http_scoped_task_resumed ==
    /\ RunnerSettled
    /\ op.layer = "http"
    /\ op.command \in ScopedOps
    /\ inner = ""
    /\ Finish(route_except_Exception(
            control_result([op EXCEPT !.name = op.command], run_pueue_command(child))))
    /\ UNCHANGED <<op, inner>>

get_status(group) ==
    /\ pc = "idle"
    /\ op' = [NoOp EXCEPT !.name = "get_status", !.layer = "async", !.group = group]
    /\ inner' = ""
    /\ Invoke(get_status_args(group))

get_groups ==
    /\ pc = "idle"
    /\ op' = [NoOp EXCEPT !.name = "get_groups", !.layer = "async"]
    /\ inner' = ""
    /\ Invoke(get_groups_args)

\* task_ids = None asks for every task; an int is a single id.
get_logs_json(task_ids, group) ==
    /\ pc = "idle"
    /\ op' = [NoOp EXCEPT !.name = "get_logs_json", !.layer = "async", !.group = group,
                          !.task_ids = IF task_ids.t = "int" THEN as_list(task_ids) ELSE task_ids]
    /\ inner' = ""
    /\ Invoke(get_logs_json_args(op'.task_ids, group))

query_result(o, rr) ==
    CASE o.name = "get_status" -> get_status_result(rr)
      [] o.name = "get_groups" -> get_groups_result(rr)
      [] o.name = "get_logs_json" -> get_logs_json_result(o.task_ids, rr)

\* A query resumes after its awaited command, decodes the output and returns.
query_resumed ==
    /\ RunnerSettled
    /\ op.name \in QueryOps
    /\ inner = ""
    /\ Finish(query_result(op, run_pueue_command(child)))
    /\ UNCHANGED <<op, inner>>

get_group_statistics(group_name) ==
    /\ pc = "idle"
    /\ op' = [NoOp EXCEPT !.name = "get_group_statistics", !.layer = "async",
                          !.group = group_name]
    /\ inner' = ""
    /\ Invoke(get_status_args(group_name))

get_group_statistics_resumed ==
    /\ RunnerSettled
    /\ op.name = "get_group_statistics"
    /\ inner = ""
    /\ Finish(get_group_statistics_result(op.group, run_pueue_command(child)))
    /\ UNCHANGED <<op, inner>>

\* The caller of get_status asks the PueueStatus it got for its failed tasks.
get_failed_tasks ==
    /\ pc = "returned"
    /\ op.name = "get_status"
    /\ result.kind = "return"
    /\ op' = [op EXCEPT !.name = "get_failed_tasks"]
    /\ Finish(Return(get_failed_tasks_result(result.value)))
    /\ UNCHANGED inner

get_group_time_statistics(group_name) ==
    /\ pc = "idle"
    /\ op' = [NoOp EXCEPT !.name = "get_group_time_statistics", !.layer = "async",
                          !.group = group_name]
    /\ inner' = ""
    /\ Invoke(get_status_args(group_name))

get_group_time_statistics_resumed ==
    /\ RunnerSettled
    /\ op.name = "get_group_time_statistics"
    /\ inner = ""
    /\ Finish(get_group_time_statistics_result(run_pueue_command(child)))
    /\ UNCHANGED <<op, inner>>

\* task_id is an int or a str; anything int() rejects raises before a command runs.
get_task_log_entry(task_id) ==
    /\ pc = "idle"
    /\ op' = [NoOp EXCEPT !.name = "get_task_log_entry", !.layer = "async",
                          !.command = IF task_id.t = "str" THEN task_id.v ELSE "",
                          !.task_ids = IF python_int(task_id).kind = "raise" THEN NoneArg
                                       ELSE IntArg(python_int(task_id).value)]
    /\ inner' = ""
    /\ IF python_int(task_id).kind = "raise" THEN Finish(python_int(task_id))
       ELSE Invoke(get_logs_json_args(as_list(op'.task_ids), None))

get_task_log_entry_resumed ==
    /\ RunnerSettled
    /\ op.name \in {"get_task_log_entry", "http_get_task_log_entry"}
    /\ inner = ""
    /\ LET r == get_task_log_entry_result(op.task_ids.v[1], run_pueue_command(child))
       IN Finish(IF op.layer = "http" THEN http_get_task_log_entry_result(op.command, r) ELSE r)
    /\ UNCHANGED <<op, inner>>

\* GET /api/log/{task_id}/json: the path parameter is a str.
http_get_task_log_entry(task_id) ==
    /\ pc = "idle"
    /\ op' = [NoOp EXCEPT !.name = "http_get_task_log_entry", !.layer = "http",
                          !.command = task_id.v,
                          !.task_ids = IF python_int(task_id).kind = "raise" THEN NoneArg
                                       ELSE IntArg(python_int(task_id).value)]
    /\ inner' = ""
    /\ IF python_int(task_id).kind = "raise"
       THEN Finish(http_get_task_log_entry_result(task_id.v, python_int(task_id)))
       ELSE Invoke(get_logs_json_args(as_list(op'.task_ids), None))

wait_for_task(task_id) ==
    /\ pc = "idle"
    /\ op' = [NoOp EXCEPT !.name = "wait_for_task", !.layer = "async", !.command = task_id]
    /\ inner' = ""
    /\ Invoke(wait_for_task_args(task_id))

wait_for_task_resumed ==
    /\ RunnerSettled
    /\ op.name = "wait_for_task"
    /\ inner = ""
    /\ Finish(wait_for_task_result(run_pueue_command(child)))
    /\ UNCHANGED <<op, inner>>

\* cls is the class whose subscribe_to_task runs; the route uses PueueWrapper.
subscribe_to_task(cls, task_id) ==
    /\ pc = "idle"
    /\ op' = [NoOp EXCEPT !.name = "subscribe_to_task", !.layer = cls, !.command = task_id]
    /\ inner' = ""
    /\ Invoke(wait_for_task_args(task_id))

subscribe_to_task_resumed ==
    /\ RunnerSettled
    /\ op.name = "subscribe_to_task"
    /\ inner = ""
    /\ Finish(IF op.layer = "http"
              THEN event_stream(subscribe_to_task_result("PueueWrapper", run_pueue_command(child)))
              ELSE subscribe_to_task_result(op.layer, run_pueue_command(child)))
    /\ UNCHANGED <<op, inner>>

\* `a` holds the keyword arguments of the call.
add_task(a) ==
    /\ pc = "idle"
    /\ op' = [NoOp EXCEPT !.name = "add_task", !.layer = "async",
                          !.command = a.command, !.label = a.label,
                          !.working_directory = a.working_directory, !.group = a.group,
                          !.priority = a.priority, !.after = a.after, !.delay = a.delay,
                          !.immediate = a.immediate, !.follow = a.follow,
                          !.stashed = a.stashed, !.escape = a.escape,
                          !.print_task_id = a.print_task_id]
    /\ inner' = ""
    /\ Invoke(add_task_args(op'))

add_task_resumed ==
    /\ RunnerSettled
    /\ op.name = "add_task"
    /\ inner = ""
    /\ Finish(add_task_result(run_pueue_command(child)))
    /\ UNCHANGED <<op, inner>>

\* Mutant: the output of the wait is returned in place of the task id.
submit_and_wait_returns_waited(task_id, waited) == waited

\* await self.subscribe_to_task(task_id); return task_id
submit_and_wait_return(task_id, waited) ==
    IF waited.kind = "raise" THEN waited ELSE Return(task_id)

\* submit_and_wait of class cls up to `await self.add_task(command, label)`
submit_and_wait(cls, command, label) ==
    /\ pc = "idle"
    /\ op' = [NoOp EXCEPT !.name = "submit_and_wait", !.layer = cls,
                          !.command = command, !.label = label]
    /\ inner' = "add_task"
    /\ Invoke(add_task_args(op'))

\* add_task has ended: its fault ends the call, its task id goes to
\* subscribe_to_task, which awaits wait_for_task(task_id).
submit_and_wait_added ==
    /\ RunnerSettled
    /\ op.name = "submit_and_wait"
    /\ inner = "add_task"
    /\ LET task_id == add_task_result(run_pueue_command(child))
       IN IF task_id.kind = "raise"
          THEN inner' = "" /\ Finish(task_id)
          ELSE inner' = "subscribe_to_task" /\ Invoke(wait_for_task_args(task_id.value))
    /\ UNCHANGED op

\* subscribe_to_task has ended: the task id is returned.
submit_and_wait_subscribed ==
    /\ RunnerSettled
    /\ op.name = "submit_and_wait"
    /\ inner = "subscribe_to_task"
    /\ inner' = ""
    /\ Finish(submit_and_wait_return(
            add_task_result(run_pueue_command(exits[1])).value,
            subscribe_to_task_result(op.layer, run_pueue_command(child))))
    /\ UNCHANGED op

\* The caller takes the result; the next call starts from a clean slate.
call_returned ==
    /\ pc = "returned"
    /\ pc' = "idle"
    /\ op' = NoOp
    /\ inner' = ""
    /\ argv' = <<>>
    /\ child' = NoChild
    /\ issued' = <<>>
    /\ exits' = <<>>
    /\ runs' = 0
    /\ result' = NoResult
    /\ UNCHANGED around

Next ==
    \/ \E t \in TaskIdsArgs : remove_task(t)
    \/ \E t \in TaskIdsArgs, g \in GroupArgs : kill_task(t, g)
    \/ \E t \in TaskIdsArgs, g \in GroupArgs : pause_task(t, g)
    \/ \E t \in TaskIdsArgs, g \in GroupArgs : start_task(t, g)
    \/ \E name \in ScopedOps, t \in {None, "", "1", "1, 2", "x"}, g \in GroupArgs :
            http_scoped_task(name, t, g)
    \/ http_scoped_task_resumed
    \/ \E t \in TaskIdsArgs, b \in BoolArgs : restart_task(t, b)
    \/ \E g \in GroupArgs \cup {"default"} : clean_tasks(g)
    \/ clean_tasks_again
    \/ \E gs \in GroupsArgs, b \in BoolArgs : reset_queue(gs, b)
    \/ \E gs \in GroupsArgs, b \in BoolArgs : sync_reset_queue(gs, b)
    \/ \E gs \in GroupsParams, b \in BoolArgs : http_reset_queue(gs, b)
    \/ \E g \in GroupNames : add_group(g)
    \/ \E g \in GroupNames, b \in BoolArgs : remove_group(g, b)
    \/ remove_group_cleaned
    \/ \E n \in ParallelArgs, g \in GroupArgs : set_group_parallel(n, g)
    \/ \E g \in GroupArgs : get_status(g)
    \/ get_groups
    \/ \E t \in TaskIdsArgs, g \in GroupArgs : get_logs_json(t, g)
    \/ \E i \in TaskIds : wait_for_task(ToString(i))
    \/ \E cls \in {"AdvancedMixin", "PueueWrapper", "http"}, i \in TaskIds :
            subscribe_to_task(cls, ToString(i))
    \/ subscribe_to_task_resumed
    \/ \E t \in TaskIdArgs : get_task_log_entry(t)
    \/ \E t \in {a \in TaskIdArgs : a.t = "str"} : http_get_task_log_entry(t)
    \/ get_task_log_entry_resumed
    \/ create_subprocess_exec
    \/ child_exit
    \/ daemon_changed
    \/ control_resumed
    \/ query_resumed
    \/ wait_for_task_resumed
    \/ call_returned

Spec == Init /\ [][Next]_vars

\* add_task alone, over every combination of its optional parameters.
AddTaskArgs ==
    [command : {"echo hi"}, label : {None, "nightly"}, working_directory : {None, "/tmp"},
     group : {None, "g"}, priority : PriorityArgs, after : AfterArgs,
     delay : {None, "10s"}, immediate : Booleans, follow : Booleans,
     stashed : Booleans, escape : Booleans, print_task_id : Booleans]

any_add_task ==
    /\ pc = "idle"
    /\ \E a \in AddTaskArgs : add_task(a)

NextAdd ==
    \/ any_add_task
    \/ \E cls \in {"AdvancedMixin", "PueueWrapper"}, c \in {"sleep 3", "sleep 5"},
            l \in {None, "Sleep 3 seconds"} : submit_and_wait(cls, c, l)
    \/ submit_and_wait_added
    \/ submit_and_wait_subscribed
    \/ create_subprocess_exec
    \/ child_exit
    \/ add_task_resumed
    \/ call_returned

SpecAdd == Init /\ [][NextAdd]_vars

\* ------------------------------------------------------- synchronous facade
\* Mutant: the coroutine is handed to the loop already running in the calling
\* thread, which the synchronous call itself keeps from running.
run_on_running_loop(caller_loop) ==
    IF caller_loop THEN [thread |-> "caller", loop |-> "running_loop"]
    ELSE [thread |-> "caller", loop |-> "asyncio.run"]

\* Where _run_async_method runs the coroutine: asyncio.run in the calling
\* thread when get_running_loop() raises RuntimeError, otherwise
\* new_event_loop().run_until_complete in a ThreadPoolExecutor thread.
run_on(caller_loop) ==
    IF caller_loop THEN [thread |-> "worker", loop |-> "new_event_loop"]
    ELSE [thread |-> "caller", loop |-> "asyncio.run"]

\* _run_async_method up to the point where the coroutine starts; caller_loop
\* says whether the calling thread has a running event loop.
run_async_method(caller_loop) ==
    /\ bridge.state = "idle"
    /\ pc = "idle"
    /\ bridge' = [state |-> "driving", caller_loop |-> caller_loop,
                  thread |-> run_on(caller_loop).thread, loop |-> run_on(caller_loop).loop,
                  value |-> NoResult]
    /\ UNCHANGED <<pc, op, inner, argv, child, issued, exits, runs, result, daemon, processes, frames, ui>>

\* asyncio.run(...) or future.result() hands over what the coroutine returned
\* or raised.
run_async_method_returned ==
    /\ bridge.state = "driving"
    /\ pc = "returned"
    /\ bridge' = [bridge EXCEPT !.state = "done", !.value = result]
    /\ UNCHANGED <<pc, op, inner, argv, child, issued, exits, runs, result, daemon, processes, frames, ui>>

\* The synchronous caller takes the result.
sync_call_returned ==
    /\ bridge.state = "done"
    /\ bridge' = NoBridge
    /\ pc' = "idle"
    /\ op' = NoOp
    /\ inner' = ""
    /\ argv' = <<>>
    /\ child' = NoChild
    /\ issued' = <<>>
    /\ exits' = <<>>
    /\ runs' = 0
    /\ result' = NoResult
    /\ UNCHANGED <<daemon, processes, frames, ui>>

\* PueueSyncCore: every method goes through _run_async_method; reset_queue
\* and wait_for_task stand for the methods that return a TaskControl and for
\* those that let a fault through.
NextSync ==
    \/ \E b \in BOOLEAN : run_async_method(b)
    \/ \E gs \in GroupsArgs, b \in BoolArgs : bridge.state = "driving" /\ sync_reset_queue(gs, b)
    \/ \E i \in TaskIds : bridge.state = "driving" /\ wait_for_task(ToString(i))
    \/ create_subprocess_exec
    \/ child_exit
    \/ control_resumed
    \/ wait_for_task_resumed
    \/ run_async_method_returned
    \/ sync_call_returned

\* The event loop resumes a coroutine whose await is over, and
\* run_until_complete returns once the coroutine is done.
SpecSync ==
    /\ Init
    /\ [][NextSync]_vars
    /\ WF_vars(control_resumed)
    /\ WF_vars(wait_for_task_resumed)
    /\ WF_vars(run_async_method_returned)

\* ------------------------------------------------------- concurrent calls
\* The calls two coroutines of one asyncio.gather make on the same instance.
ConcurrentCalls ==
    {[NoOp EXCEPT !.name = "add_task", !.layer = "async", !.command = "sleep 3",
                  !.label = "Sleep 3 seconds", !.print_task_id = TRUE],
     [NoOp EXCEPT !.name = "add_task", !.layer = "async", !.command = "sleep 5",
                  !.print_task_id = TRUE]}
        \cup {[NoOp EXCEPT !.name = "wait_for_task", !.layer = "async", !.command = ToString(i)]
                : i \in TaskIds}
        \cup {[NoOp EXCEPT !.name = "kill_task", !.layer = "async", !.task_ids = ListArg(<<i>>)]
                : i \in TaskIds}

\* The vector a call builds in its local `args`.
call_args(o) ==
    CASE o.name = "add_task" -> Return(add_task_args(o))
      [] o.name = "wait_for_task" -> Return(wait_for_task_args(o.command))
      [] o.name = "kill_task" -> kill_task_args(o.task_ids, o.group)

\* What a call returns once its command is settled.
call_result(o, rr) ==
    CASE o.name = "add_task" -> add_task_result(rr)
      [] o.name = "wait_for_task" -> wait_for_task_result(rr)
      [] o.name = "kill_task" -> kill_task_result(o.task_ids, o.group, rr)

\* Mutant: the process handle is an attribute of the instance, so a call
\* reads the handle the other call stored last.
shared_proc(fs, c) ==
    IF \E d \in Callers \ {c} : fs[d].child.state \in {"exited", "spawn_failed"}
    THEN fs[CHOOSE d \in Callers \ {c} : fs[d].child.state \in {"exited", "spawn_failed"}].child
    ELSE fs[c].child

\* `proc` is a local of _run_pueue_command: each call reads its own.
own_proc(fs, c) == fs[c].child

\* Coroutine c calls an operation and runs up to its await.
concurrent_call(c, o) ==
    /\ frames[c].pc = "idle"
    /\ frames' = [frames EXCEPT ![c] =
            IF call_args(o).kind = "raise"
            THEN [IdleFrame EXCEPT !.pc = "returned", !.op = o,
                                   !.result = except_Exception(call_args(o))]
            ELSE [IdleFrame EXCEPT !.pc = "runner", !.op = o, !.argv = call_args(o).value]]
    /\ UNCHANGED <<pc, op, inner, argv, child, issued, exits, runs, result, daemon, processes, bridge, ui>>

\* proc = await asyncio.create_subprocess_exec("pueue", *args, ...) in coroutine c
concurrent_create_subprocess_exec(c) ==
    /\ frames[c].pc = "runner"
    /\ \/ frames' = [frames EXCEPT ![c].pc = "communicate", ![c].child = Running]
       \/ frames' = [frames EXCEPT ![c].pc = "spawn_failed", ![c].child = SpawnFailed]
    /\ UNCHANGED <<pc, op, inner, argv, child, issued, exits, runs, result, daemon, processes, bridge, ui>>

\* The child of coroutine c exits.
concurrent_child_exit(c) ==
    /\ frames[c].pc = "communicate"
    /\ frames[c].child.state = "running"
    /\ \E x \in ChildExits(frames[c].argv, daemon) : frames' = [frames EXCEPT ![c].child = x]
    /\ UNCHANGED <<pc, op, inner, argv, child, issued, exits, runs, result, daemon, processes, bridge, ui>>

\* Coroutine c is resumed after its await and returns.
concurrent_resumed(c) ==
    /\ \/ frames[c].pc = "spawn_failed"
       \/ frames[c].pc = "communicate" /\ frames[c].child.state = "exited"
    /\ frames' = [frames EXCEPT
            ![c].pc = "returned",
            ![c].result = call_result(frames[c].op, run_pueue_command(own_proc(frames, c)))]
    /\ UNCHANGED <<pc, op, inner, argv, child, issued, exits, runs, result, daemon, processes, bridge, ui>>

\* The caller of coroutine c takes the result.
concurrent_returned(c) ==
    /\ frames[c].pc = "returned"
    /\ frames' = [frames EXCEPT ![c] = IdleFrame]
    /\ UNCHANGED <<pc, op, inner, argv, child, issued, exits, runs, result, daemon, processes, bridge, ui>>

NextConc ==
    \/ \E c \in Callers, o \in ConcurrentCalls : concurrent_call(c, o)
    \/ \E c \in Callers : concurrent_create_subprocess_exec(c)
    \/ \E c \in Callers : concurrent_child_exit(c)
    \/ \E c \in Callers : concurrent_resumed(c)
    \/ \E c \in Callers : concurrent_returned(c)

SpecConc == Init /\ [][NextConc]_vars

\* ------------------------------------------------------- dashboard, Groups page
\* st.button(key=...): true in the rerun its click triggered, false otherwise.
st_button(key, pressed) == pressed = key

\* What one piece of the script adds to the page: the widgets it renders and
\* the wrapper calls it makes.
Rendered(keys, calls) == [rendered |-> keys, calls |-> calls]

\* if st.button("delete group", key=f"delete_{selected_group}"): _delete_group(...)
delete_group_entered(group_name, pressed) == st_button("delete_" \o group_name, pressed)

\* _delete_group: the warning, the confirm button (which calls remove_group
\* when it reads pressed) and the cancel button.
delete_group(group_name, pressed) ==
    Rendered({"confirm_delete_" \o group_name, "cancel_delete_" \o group_name},
             IF st_button("confirm_delete_" \o group_name, pressed)
             THEN << <<"remove_group", group_name>> >> ELSE <<>>)

\* _display_group_operations for the selected group: the clean button and,
\* for a group other than default, the delete button.
display_group_operations(selected_group, pressed) ==
    LET clean == Rendered({"clean_" \o selected_group},
                          IF st_button("clean_" \o selected_group, pressed)
                          THEN << <<"clean_tasks", selected_group>> >> ELSE <<>>)
        danger == IF selected_group # "default"
                  THEN IF delete_group_entered(selected_group, pressed)
                       THEN LET inside == delete_group(selected_group, pressed)
                            IN Rendered({"delete_" \o selected_group} \cup inside.rendered,
                                        inside.calls)
                       ELSE Rendered({"delete_" \o selected_group}, <<>>)
                  ELSE Rendered({}, <<>>)
    IN Rendered(clean.rendered \cup danger.rendered, clean.calls \o danger.calls)

\* The user picks a group in the selectbox; the script reruns.
select_group(g) ==
    /\ ui.pressed = ""
    /\ g # ui.selected \/ ui.rendered = {}
    /\ ui' = [ui EXCEPT !.selected = g, !.clicks = <<>>,
                        !.rendered = display_group_operations(g, "").rendered]
    /\ UNCHANGED <<pc, op, inner, argv, child, issued, exits, runs, result, daemon, processes, frames, bridge>>

\* The user clicks a button the page shows; the click is pending until the
\* script has rerun.
click(key) ==
    /\ ui.pressed = ""
    /\ key \in ui.rendered
    /\ Len(ui.calls) < MaxCalls
    /\ ui' = [ui EXCEPT !.pressed = key,
                        !.clicks = IF ui.clicks = <<>> THEN <<key>>
                                   ELSE <<ui.clicks[Len(ui.clicks)], key>>]
    /\ UNCHANGED <<pc, op, inner, argv, child, issued, exits, runs, result, daemon, processes, frames, bridge>>

\* The rerun a click triggers: the script runs top to bottom with only the
\* clicked button reading pressed.  A wrapper call that succeeds, and the
\* cancel button, end with st.rerun(), a further run with no button pressed.
script_rerun ==
    /\ ui.pressed # ""
    /\ LET page == display_group_operations(ui.selected, ui.pressed)
       IN \E success \in BOOLEAN :
            ui' = [ui EXCEPT
                    !.pressed = "",
                    !.calls = ui.calls \o page.calls,
                    !.rendered =
                        IF \/ page.calls # <<>> /\ success
                           \/ st_button("cancel_delete_" \o ui.selected, ui.pressed)
                                /\ "cancel_delete_" \o ui.selected \in page.rendered
                        THEN display_group_operations(ui.selected, "").rendered
                        ELSE page.rendered]
    /\ UNCHANGED <<pc, op, inner, argv, child, issued, exits, runs, result, daemon, processes, frames, bridge>>

UiGroups == {"default", "g", "h"}

UiKeys == {b \o g : b \in {"clean_", "delete_", "confirm_delete_", "cancel_delete_"}, g \in UiGroups}

NextUi ==
    \/ \E g \in UiGroups : select_group(g)
    \/ \E key \in UiKeys : click(key)
    \/ script_rerun

\* Streamlit reruns the script after every click.
SpecUi == Init /\ [][NextUi]_vars /\ WF_vars(script_rerun)

\* The status query and the statistics computed from it.
NextStats ==
    \/ \E g \in GroupArgs : get_status(g)
    \/ \E g \in GroupNames : get_group_statistics(g)
    \/ create_subprocess_exec
    \/ child_exit
    \/ query_resumed
    \/ get_group_statistics_resumed
    \/ get_failed_tasks
    \/ \E g \in GroupNames : get_group_time_statistics(g)
    \/ get_group_time_statistics_resumed
    \/ call_returned

SpecStats == Init /\ [][NextStats]_vars

\* Samples of successful durations: short ones over a few values (equal,
\* a hundredth apart, tenths apart, seconds, minutes and hours apart) and the
\* ramps 1 s .. n s, ascending and descending.
DurationValues == {100, 101, 140, 500, 48100, 2880100}

Samples ==
    UNION {[1..n -> DurationValues] : n \in 1..MaxSample}
        \cup {[i \in 1..n |-> i * Second] : n \in 1..MaxRamp}
        \cup {[i \in 1..n |-> (n + 1 - i) * Second] : n \in 1..MaxRamp}

\* get_group_time_statistics holds a non-empty successful_durations.
InitTime ==
    /\ Fresh
    /\ op \in {[NoOp EXCEPT !.durations = d] : d \in Samples}

\* self._create_duration_buckets(successful_durations)
create_duration_buckets ==
    /\ pc = "idle"
    /\ op' = [op EXCEPT !.name = "create_duration_buckets"]
    /\ inner' = ""
    /\ \E up \in TieRoundings(op.durations) :
            Finish(Return(create_duration_buckets_result(op.durations, up)))

\* time_stats.duration_percentiles = {...}
duration_percentiles ==
    /\ pc = "idle"
    /\ op' = [op EXCEPT !.name = "duration_percentiles"]
    /\ inner' = ""
    /\ Finish(duration_percentiles_result(op.durations))

\* The statistic is stored; the sample stays.
duration_statistic_stored ==
    /\ pc = "returned"
    /\ pc' = "idle"
    /\ op' = [op EXCEPT !.name = ""]
    /\ result' = NoResult
    /\ UNCHANGED <<inner, argv, child, issued, exits, runs, around>>

NextTime ==
    \/ create_duration_buckets
    \/ duration_percentiles
    \/ duration_statistic_stored

SpecTime == InitTime /\ [][NextTime]_vars

\* ======================================================= properties

\* The Command Runner call whose child is `c` failed.
Failed(c) == c.state = "spawn_failed" \/ (c.state = "exited" /\ c.returncode # 0)
Succeeded(c) == c.state = "exited" /\ c.returncode = 0

\* The sub-command of a scoped operation.
Verb(name) ==
    CASE name = "kill_task" -> "kill" [] name = "pause_task" -> "pause"
      [] name = "start_task" -> "start"

\* C1: a control operation never raises to its caller: whatever the arguments
\* and however the pueue invocation fails it returns a TaskControl with
\* success=false and the failure's message, and success=true only when every
\* command it issued exited with code 0.
C1_ControlNeverRaises ==
    (pc = "returned" /\ op.name \in ControlOps) =>
        /\ result.kind = "return"
        /\ result.value.success =>
              (exits # <<>> /\ \A i \in DOMAIN exits : Succeeded(exits[i]))
        /\ exits = <<>> => ~result.value.success
        /\ (exits # <<>> /\ Failed(exits[Len(exits)])) =>
              /\ ~result.value.success
              /\ LET cause == run_pueue_command(exits[Len(exits)]).message
                 IN result.value.message =
                        IF op.name = "remove_group" /\ op.flag /\ Len(exits) = 1
                        THEN "Failed to clean tasks in group '" \o op.group \o "': " \o cause
                        ELSE cause

C1_Witness ==
    /\ pc = "returned"
    /\ op.name = "kill_task"
    /\ exits # <<>>
    /\ exits[1].state = "exited"
    /\ exits[1].returncode = 1
    /\ exits[1].stderr = "Error: bad request"
    /\ result.kind = "return"
    /\ ~result.value.success
    /\ result.value.message = "Pueue command failed: Error: bad request"

\* C2: kill_task, pause_task and start_task called with an empty id list and
\* no group fail fast with an invalid-argument error and never invoke the
\* pueue binary.
C2_NeitherScopeFailsFast ==
    (op.name \in ScopedOps /\ op.task_ids = ListArg(<<>>) /\ op.group = None) =>
        /\ pc # "runner"
        /\ issued = <<>>
        /\ pc = "returned" => (result.kind = "raise" \/ ~result.value.success)

\* C3: kill_task, pause_task and start_task called with an empty id list and a
\* non-empty group name issue `<op> --group NAME` with no id arguments, fail
\* only if that command fails, and on success return a TaskControl without
\* task_ids.
C3_EmptyIdsWithGroupTargetsGroup ==
    (op.name \in ScopedOps /\ op.task_ids = ListArg(<<>>) /\ Truthy(op.group)) =>
        /\ pc # "idle" => argv = <<Verb(op.name), "--group", op.group>>
        /\ issued \in {<<>>, <<argv>>}
        /\ pc = "returned" =>
              /\ issued = <<argv>>
              /\ result.kind = "return"
              /\ result.value.success <=> Succeeded(exits[1])
              /\ result.value.success => ~result.value.task_ids.some

C3_Witness ==
    /\ pc = "returned"
    /\ op.name = "kill_task"
    /\ op.task_ids = ListArg(<<>>)
    /\ op.group = "g"
    /\ issued = <<<<"kill", "--group", "g">>>>
    /\ result.value.success
    /\ result.value.task_ids = Absent

\* C4: kill_task, pause_task and start_task called with both a non-empty id
\* list and a group name are rejected with an invalid-argument error; neither
\* scope is silently dropped.
C4_BothScopesRejected ==
    (op.name \in ScopedOps /\ TruthyList(op.task_ids) /\ Truthy(op.group)) =>
        /\ pc # "runner"
        /\ issued = <<>>
        /\ pc = "returned" => (result.kind = "raise" \/ ~result.value.success)

\* C5: remove_group with force_clean (the default) issues `clean --group NAME`
\* first and `group remove NAME` only after that clean succeeded; when the
\* clean fails it returns success=false with the clean failure's message and
\* `group remove NAME` is never issued.  NAME is the (non-empty) name of a group.
C5_RemoveGroupCleansFirst ==
    (op.name = "remove_group" /\ op.flag) =>
        /\ Len(issued) <= 2
        /\ Len(issued) >= 1 => issued[1] = <<"clean", "--group", op.group>>
        /\ Len(issued) = 2 =>
              /\ issued[2] = <<"group", "remove", op.group>>
              /\ Succeeded(exits[1])
        /\ pc = "runner" /\ argv = <<"group", "remove", op.group>> => Succeeded(exits[1])
        /\ (pc = "returned" /\ Failed(exits[1])) =>
              /\ Len(issued) = 1
              /\ result.kind = "return"
              /\ ~result.value.success
              /\ result.value.message =
                    "Failed to clean tasks in group '" \o op.group \o "': "
                        \o run_pueue_command(exits[1]).message
        /\ (pc = "returned" /\ Succeeded(exits[1])) => Len(issued) = 2

C5_Witness ==
    /\ pc = "returned"
    /\ op.name = "remove_group"
    /\ op.supplied = Omitted
    /\ op.group = "g"
    /\ issued = <<<<"clean", "--group", "g">>>>
    /\ exits[1].returncode = 1
    /\ ~result.value.success

\* C6: reset_queue passes `--force` to the binary if and only if the caller
\* explicitly supplied force=true, whether the call enters through the async
\* core, the sync core or the HTTP route: an omitted force never reaches the
\* binary as `--force`.
C6_ForceOnlyWhenSupplied ==
    (op.name = "reset_queue" /\ pc # "idle") =>
        /\ "--force" \in Range(argv) <=> op.supplied = "True"
        /\ \A i \in DOMAIN issued : "--force" \in Range(issued[i]) <=> op.supplied = "True"

C6_Witness ==
    /\ pc = "returned"
    /\ op.name = "reset_queue"
    /\ op.layer = "http"
    /\ op.supplied = Omitted
    /\ issued = <<<<"reset">>>>
    /\ result.value.success

\* The output a query expects from the binary.
WellShaped(o, text) ==
    CASE o.name = "get_status" ->
            \E snap \in Snapshots :
                text = StatusTexts[snap] /\ \A i \in DOMAIN snap : snap[i] # "Locked"
      [] o.name = "get_groups" -> text = GroupsText
      [] o.name = "get_logs_json" -> \E S \in SUBSET TaskIds : text = log_text(S)

\* C7: get_status, get_groups and get_logs_json propagate every fault and never
\* return a defaulted or partial result: output that is malformed JSON or has
\* an unexpected shape fails with an error whose kind differs from the one
\* raised for a non-zero exit.
C7_QueriesPropagateFaults ==
    (pc = "returned" /\ op.name \in QueryOps) =>
        /\ Failed(exits[1]) => result = run_pueue_command(exits[1])
        /\ (Succeeded(exits[1]) /\ ~WellShaped(op, exits[1].stdout)) =>
              /\ result.kind = "raise"
              /\ result.type # "Exception"

\* C8: every way the invocation can fail in the Command Runner (binary not
\* found, crashed, rejected its arguments) surfaces as one and the same error
\* kind, the one raised for a non-zero exit, carrying a message.
C8_OneErrorKind ==
    (pc = "returned" /\ op.name = "wait_for_task" /\ Failed(exits[1])) =>
        /\ result.kind = "raise"
        /\ result.type = "Exception"
        /\ exits[1].state = "exited" =>
              result.message = "Pueue command failed: " \o exits[1].stderr

\* C9: each Command Runner call execs the binary exactly once and is never
\* retried, whether it succeeds or fails; wait_for_task issues exactly one
\* `wait ID`, nothing else, and returns only after that child has exited.
C9_OneChildPerRunnerCall ==
    /\ Len(issued) = IF pc = "runner" THEN runs - 1 ELSE runs
    /\ Len(exits) <= Len(issued)
    /\ pc = "returned" => Len(exits) = Len(issued)
    /\ (pc = "returned" /\ op.name # "remove_group") => runs <= 1
    /\ (pc = "returned" /\ op.name = "wait_for_task") =>
          /\ issued = <<<<"wait", op.command>>>>
          /\ result.kind = "return" =>
                (Succeeded(exits[1]) /\ result.value = exits[1].stdout)
          /\ result.kind = "raise" => Failed(exits[1])

C9_Witness ==
    /\ pc = "returned"
    /\ op.name = "wait_for_task"
    /\ issued = <<<<"wait", "1">>>>
    /\ exits[1].state = "exited"
    /\ result = Return("Task 1 finished\n")

\* The places of the `--after` flags in an argument vector, in ascending order.
AfterPlaces(args) == sorted({i \in DOMAIN args : args[i] = "--after"})

\* C10: add_task with after=[d1,...,dk] emits exactly k `--after di` pairs, in
\* the given order, each before the command string, which is the last element
\* of the vector; no comma-joined value is emitted, and no `--after` at all
\* when the list is empty or absent.
C10_AfterFlagsRepeated ==
    (op.name = "add_task" /\ pc # "idle") =>
        LET places == AfterPlaces(argv)
            deps == op.after.v
        IN /\ argv[Len(argv)] = op.command
           /\ Len(places) = Len(deps)
           /\ \A j \in DOMAIN places :
                 /\ places[j] + 1 < Len(argv)
                 /\ argv[places[j] + 1] = ToString(deps[j])
           /\ Len(deps) >= 2 => join(",", str_list(deps)) \notin Range(argv)
           /\ \A i \in DOMAIN issued : issued[i] = argv

C10_Witness ==
    /\ pc = "returned"
    /\ op.name = "add_task"
    /\ op.after = ListArg(<<1, 2>>)
    /\ op.priority = Some(5)
    /\ op.delay = "10s"
    /\ \E i \in DOMAIN argv : SubSeq(argv, i, i + 3) = <<"--after", "1", "--after", "2">>
    /\ result = Return("7")

\* C11: get_logs_json called with a subset of ids fetches the daemon's full
\* log object (`log --json` without ids) and filters it client-side, so it
\* returns exactly the entries of the daemon's log set whose id was requested,
\* whatever the tool's own per-id filtering does.
C11_LogsFilteredClientSide ==
    (/\ pc = "returned"
     /\ op.name = "get_logs_json"
     /\ op.task_ids.t = "list"
     /\ ~Truthy(op.group)
     /\ Succeeded(child)
     /\ \E S \in SUBSET daemon : child.stdout = log_text(S)) =>
        /\ issued = << <<"log", "--json">> >>
        /\ result.kind = "return"
        /\ DOMAIN result.value = {ToString(i) : i \in Range(op.task_ids.v) \cap daemon}

\* C12: get_task_log_entry(id) returns the explicit absent value (None) and
\* does not raise when the fetched logs hold no entry for the id (in particular
\* when the daemon has none), and returns the single entry keyed by that id when
\* the fetched logs hold one.
C12_LogEntryOrNone ==
    (/\ pc = "returned"
     /\ op.name = "get_task_log_entry"
     /\ Succeeded(child)
     /\ \E S \in SUBSET daemon : child.stdout = log_text(S)) =>
        LET id == op.task_ids.v[1]
            fetched == CHOOSE S \in SUBSET daemon : child.stdout = log_text(S)
        IN /\ result.kind = "return"
           /\ id \in fetched => result.value = Some(log_entry_value(id))
           /\ id \notin fetched => result.value = Absent
           /\ id \notin daemon => result.value = Absent

C12_Witness ==
    /\ pc = "returned"
    /\ op.name = "get_task_log_entry"
    /\ op.task_ids = IntArg(2)
    /\ daemon = {1}
    /\ issued = << <<"log", "--json", "2">> >>
    /\ Succeeded(child)
    /\ child.stdout = log_text({})
    /\ result = Return(Absent)

\* C13: the TaskControl of a successful restart_task with in_place=true
\* differs (in its message or its task_ids) from the one a successful
\* restart_task of the same ids with in_place=false returns.
C13_RestartModesDistinguishable ==
    (/\ pc = "returned"
     /\ op.name = "restart_task"
     /\ op.task_ids.t = "list"
     /\ Succeeded(child)) =>
        /\ result = restart_task_result(op.task_ids, op.flag, Return(child.stdout))
        /\ result # restart_task_result(op.task_ids, ~op.flag, Return(child.stdout))

\* The snapshot the status command printed.
Printed(text) == CHOOSE snap \in Snapshots : text = StatusTexts[snap]

OneTag == StatusShapes \ {"Empty", "Two", "Locked"}

\* C14: every task of a PueueStatus returned by get_status has exactly one
\* status tag: a wire status object with zero keys or with two or more keys
\* makes get_status fail with a parse error, so it reaches neither the caller
\* nor the statistics computed from the status.
C14_ExactlyOneStatusTag ==
    (/\ pc = "returned"
     /\ op.name \in {"get_status", "get_group_statistics"}
     /\ Succeeded(child)
     /\ \E snap \in Snapshots : child.stdout = StatusTexts[snap]
     /\ \E i \in DOMAIN Printed(child.stdout) : Printed(child.stdout)[i] \in {"Empty", "Two"}) =>
        /\ result.kind = "raise"
        /\ result.type \in {"ValidationError", "JSONDecodeError"}

\* C15: get_group_statistics counts a Done task as completed only when its
\* result is exactly the string "Success"; a Done task with any other result
\* (a failure object, no result, another string or object) is counted as failed.
C15_DoneCompletedOnlyOnSuccess ==
    (/\ pc = "returned"
     /\ op.name = "get_group_statistics"
     /\ Succeeded(child)
     /\ \E snap \in Snapshots : child.stdout = StatusTexts[snap]
     /\ \A i \in DOMAIN Printed(child.stdout) : Printed(child.stdout)[i] \in OneTag) =>
        LET snap == Printed(child.stdout)
        IN /\ result.kind = "return"
           /\ result.value.completed_tasks = Cardinality({i \in DOMAIN snap : snap[i] = "Success"})
           /\ result.value.failed_tasks =
                Cardinality({i \in DOMAIN snap : snap[i] \in {"Failed", "Killed", "NoResult", "FailedToSpawn"}})

\* A rate is a number between 0 and 100.
InPercentRange(r) == r.den > 0 /\ 0 <= r.num /\ r.num <= 100 * r.den

\* C16: the completion, success and failure rates of get_group_statistics lie
\* in [0, 100], and each is 0 when its denominator (the total, respectively
\* completed + failed) is 0: nothing is divided by zero for an empty or
\* all-queued group.
C16_RatesInRange ==
    (pc = "returned" /\ op.name = "get_group_statistics" /\ result.kind = "return") =>
        LET stats == result.value
        IN /\ InPercentRange(stats.completion_rate)
           /\ InPercentRange(stats.success_rate)
           /\ InPercentRange(stats.failure_rate)
           /\ stats.total_tasks = 0 => stats.completion_rate.num = 0
           /\ stats.completed_tasks + stats.failed_tasks = 0 =>
                stats.success_rate.num = 0 /\ stats.failure_rate.num = 0
           /\ stats.completed_tasks + stats.failed_tasks > 0 =>
                stats.completion_rate =
                    Percent(stats.completed_tasks + stats.failed_tasks, stats.total_tasks)

C16_Witness ==
    /\ pc = "returned"
    /\ op.name = "get_group_statistics"
    /\ Succeeded(child)
    /\ child.stdout = StatusTexts[[i \in {1, 2} |-> "Queued"]]
    /\ result.kind = "return"
    /\ result.value.total_tasks = 2
    /\ result.value.queued_tasks = 2
    /\ result.value.completion_rate.num = 0
    /\ result.value.success_rate = ZeroRate

RECURSIVE SumOver(_, _)
SumOver(f, keys) ==
    IF keys = {} THEN 0
    ELSE LET k == CHOOSE x \in keys : TRUE IN f[k] + SumOver(f, keys \ {k})

\* C17: for any non-empty sample of successful durations, values all equal or
\* closer than the label precision included, the counts in the returned
\* duration_buckets mapping sum exactly to the number of durations.
C17_BucketCountsSumToSample ==
    (pc = "returned" /\ op.name = "create_duration_buckets") =>
        /\ result.kind = "return"
        /\ SumOver(result.value, DOMAIN result.value) = Len(op.durations)

\* The number of durations below v, and of those not above v.
Below(durations, v) == Cardinality({k \in DOMAIN durations : durations[k] < v})
UpTo(durations, v) == Cardinality({k \in DOMAIN durations : durations[k] <= v})

\* C18: for a non-empty sample of n durations and p in {25, 50, 75, 95} the
\* reported percentile is the element at 0-based index floor(p * n / 100) of
\* the ascending sample; the index lies in 0..n-1 and nothing is interpolated
\* (the value is a member of the sample), e.g. 6 s for the durations 1 s..10 s
\* and p = 50.
C18_NearestRankPercentile ==
    (pc = "returned" /\ op.name = "duration_percentiles") =>
        /\ result.kind = "return"
        /\ \A p \in Percentiles :
              LET n == Len(op.durations)
                  index == (p * n) \div 100
                  v == result.value[p]
              IN /\ index \in 0..(n - 1)
                 /\ v \in Range(op.durations)
                 /\ Below(op.durations, v) <= index
                 /\ index < UpTo(op.durations, v)
        /\ op.durations = [i \in 1..10 |-> i * Second] => result.value[50] = 6 * Second

C18_Witness ==
    /\ pc = "returned"
    /\ op.name = "duration_percentiles"
    /\ op.durations = [i \in 1..10 |-> (11 - i) * Second]
    /\ result = Return([p \in Percentiles |->
                    CASE p = 25 -> 3 * Second [] p = 50 -> 6 * Second
                      [] p = 75 -> 8 * Second [] p = 95 -> 10 * Second])

\* C19: a synchronous call never runs the coroutine on an event loop that is
\* already running in the calling thread: with a running loop it runs it in a
\* worker thread on a fresh loop, without one it drives it in the calling
\* thread; either way the call ends with what the operation returned or
\* raised once the operation's command is over.
C19_SyncBridge ==
    /\ [](bridge.state \in {"driving", "done"} =>
            /\ bridge.loop # "running_loop"
            /\ bridge.caller_loop => bridge.thread = "worker" /\ bridge.loop = "new_event_loop"
            /\ ~bridge.caller_loop => bridge.thread = "caller" /\ bridge.loop = "asyncio.run")
    /\ [](bridge.state = "done" => pc = "returned" /\ bridge.value = result)
    /\ (bridge.state = "driving" /\ RunnerSettled) ~> (bridge.state = "done")

C19_Witness ==
    /\ bridge.state = "done"
    /\ bridge.caller_loop
    /\ bridge.thread = "worker"
    /\ op.name = "wait_for_task"
    /\ Failed(child)
    /\ bridge.value = run_pueue_command(child)

\* C20: operations running concurrently on one instance share no mutable
\* state: under every interleaving the vector of each is the one its own
\* arguments give, its result is the one its own child's outcome gives, and
\* the instance's `processes` map stays empty.
C20_NoSharedState ==
    /\ processes = EmptyDict
    /\ \A c \in Callers :
          /\ frames[c].pc \in {"runner", "communicate", "spawn_failed"} =>
                frames[c].argv = call_args(frames[c].op).value
          /\ (frames[c].pc = "returned" /\ frames[c].child.state # "none") =>
                frames[c].result = call_result(frames[c].op, run_pueue_command(frames[c].child))

C20_Witness ==
    /\ frames["c1"].pc = "returned"
    /\ frames["c2"].pc = "returned"
    /\ frames["c1"].op.name = "add_task"
    /\ frames["c2"].op.name = "add_task"
    /\ frames["c1"].op.command # frames["c2"].op.command
    /\ frames["c1"].result = Return("7")
    /\ frames["c2"].result.kind = "raise"

\* C21: GET /api/log/{task_id}/json answers 404 when the wrapper reports no
\* log entry for the id, and 500 with the fault's message when the wrapper
\* raises; the 404 is never turned into a 500.
C21_LogRouteNotFoundIs404 ==
    (/\ pc = "returned"
     /\ op.name = "http_get_task_log_entry") =>
        LET r == IF op.task_ids = NoneArg
                 THEN python_int([t |-> "str", v |-> op.command])
                 ELSE get_task_log_entry_result(op.task_ids.v[1], run_pueue_command(child))
        IN /\ r = Return(Absent) =>
                /\ result.kind = "raise"
                /\ result.type = "HTTPException"
                /\ result.status_code = 404
           /\ r.kind = "raise" =>
                /\ result.kind = "raise"
                /\ result.type = "HTTPException"
                /\ result.status_code = 500
                /\ result.message = r.message
           /\ (r.kind = "return" /\ r.value # Absent) => result = r

C21_Witness ==
    /\ pc = "returned"
    /\ op.name = "http_get_task_log_entry"
    /\ op.command = "2"
    /\ Succeeded(child)
    /\ child.stdout = log_text({})
    /\ result = HTTPException(404, "Task 2 not found")

C23_SubscribeReturnsWaitOutput ==
    (/\ pc = "returned"
     /\ op.name = "subscribe_to_task"
     /\ Succeeded(child)) =>
        /\ issued = << <<"wait", op.command>> >>
        /\ result = IF op.layer = "http"
                    THEN Return("data: " \o child.stdout \o "\n\n")
                    ELSE Return(child.stdout)

\* The statuses that are Done and carry a start and an end.
DoneTimed == {"Success", "Failed", "Killed", "NoResult"}

\* The status command printed a snapshot that passes validation.
PrintedValid ==
    /\ Succeeded(child)
    /\ \E snap \in Snapshots : child.stdout = StatusTexts[snap]
    /\ \A i \in DOMAIN Printed(child.stdout) : Printed(child.stdout)[i] # "Locked"

\* C24: get_group_time_statistics puts the duration of a Done task that has a
\* start and an end into the successful durations exactly when
\* get_group_statistics counts the task as completed, and into the failed
\* durations exactly when it counts it as failed, a Done task without a result
\* included.
C24_TimeStatisticsSameSuccessRule ==
    (/\ pc = "returned"
     /\ op.name = "get_group_time_statistics"
     /\ PrintedValid) =>
        LET snap == Printed(child.stdout)
        IN /\ result.kind = "return"
           /\ \A i \in DOMAIN snap : snap[i] \in DoneTimed =>
                LET completed == done_is_completed(wire_status_value(snap[i]).v.Done)
                IN /\ ToString(i) \in DOMAIN result.value.successful_durations <=> completed
                   /\ ToString(i) \in DOMAIN result.value.failed_durations <=> ~completed

\* C25: for a Done task whose result is missing, PueueStatus._is_task_failed
\* says failed (get_failed_tasks lists the task) while _is_task_successful says
\* successful (get_group_time_statistics takes its duration as a successful one).
C25_HelpersDisagreeOnMissingResult ==
    /\ (pc = "returned" /\ op.name = "get_failed_tasks" /\ PrintedValid) =>
            \A i \in DOMAIN Printed(child.stdout) :
                Printed(child.stdout)[i] = "NoResult" => ToString(i) \in result.value
    /\ (pc = "returned" /\ op.name = "get_group_time_statistics" /\ PrintedValid) =>
            \A i \in DOMAIN Printed(child.stdout) :
                Printed(child.stdout)[i] = "NoResult" =>
                    ToString(i) \in DOMAIN result.value.successful_durations

\* The statuses that carry enqueued_at and start, and the wait between them.
QueueWait ==
    [shape \in {"Running", "Paused", "Success", "Failed", "Killed", "NoResult", "Skewed"} |->
        IF shape = "Skewed" THEN -4 * Second ELSE 1 * Second]

\* C26: get_group_time_statistics collects start - enqueued_at for every task,
\* whatever its status, that has both fields and a difference that is not
\* negative; a negative difference is dropped without an error and has no
\* part in average_queue_time.
C26_QueueWaitSamples ==
    (/\ pc = "returned"
     /\ op.name = "get_group_time_statistics"
     /\ PrintedValid) =>
        LET snap == Printed(child.stdout)
            kept == {i \in DOMAIN snap : snap[i] \in DOMAIN QueueWait /\ QueueWait[snap[i]] >= 0}
        IN /\ result.kind = "return"
           /\ DOMAIN result.value.queue_times = {ToString(i) : i \in kept}
           /\ \A i \in kept : result.value.queue_times[ToString(i)] = QueueWait[snap[i]]
           /\ kept = {} => result.value.average_queue_time = Absent
           /\ kept # {} =>
                /\ result.value.average_queue_time.some
                /\ result.value.average_queue_time.v.den = Cardinality(kept)
                /\ result.value.average_queue_time.v.num = Cardinality(kept) * Second

C26_Witness ==
    /\ pc = "returned"
    /\ op.name = "get_group_time_statistics"
    /\ Succeeded(child)
    /\ child.stdout = StatusTexts[(1 :> "Skewed") @@ (2 :> "Paused")]
    /\ result.kind = "return"
    /\ DOMAIN result.value.queue_times = {"2"}
    /\ result.value.average_queue_time = Some([num |-> 1 * Second, den |-> 1])

\* C28: get_group_statistics adds one to exactly one state counter for each
\* task, so total_tasks = running + queued + paused + stashed + completed +
\* failed, also when a task's status tag is none of Queued, Running, Paused,
\* Stashed, Done.
C28_TotalIsSumOfCounters ==
    (/\ pc = "returned"
     /\ op.name = "get_group_statistics"
     /\ PrintedValid
     /\ result.kind = "return") =>
        result.value.total_tasks =
                result.value.running_tasks + result.value.queued_tasks
                    + result.value.paused_tasks + result.value.stashed_tasks
                    + result.value.completed_tasks + result.value.failed_tasks

\* C29: POST /api/tasks/kill, /api/tasks/pause and /api/tasks/start called with
\* neither task_ids nor group answer with status 400 and the detail "Either
\* task_ids or group must be specified", and call no wrapper operation.
C29_NeitherScopeIs400 ==
    (/\ pc = "returned"
     /\ op.name \in {"http_kill_task", "http_pause_task", "http_start_task"}
     /\ op.task_ids = NoneArg
     /\ ~Truthy(op.group)
     /\ runs = 0) =>
        /\ issued = <<>>
        /\ result = HTTPException(400, "Either task_ids or group must be specified")

\* C27: submit_and_wait runs `add` and then `wait`: the wait is issued only
\* after add has returned, for exactly the task id add returned; the id goes
\* back to the caller only after the wait has ended; and when add fails no
\* wait is issued and the failure reaches the caller.
C27_SubmitThenWait ==
    op.name = "submit_and_wait" =>
        /\ Len(issued) <= 2
        /\ Len(issued) >= 1 =>
              issued[1] = <<"add", "--print-task-id">>
                            \o (IF op.label = None THEN <<>> ELSE <<"--label", op.label>>)
                            \o <<op.command>>
        /\ Len(issued) = 2 =>
              /\ Len(exits) >= 1
              /\ Succeeded(exits[1])
              /\ issued[2] = <<"wait", strip(exits[1].stdout)>>
        /\ (Len(exits) >= 1 /\ Failed(exits[1])) =>
              /\ Len(issued) = 1
              /\ pc \in {"returned", "spawn_failed", "communicate"}
              /\ pc = "returned" => result = run_pueue_command(exits[1])
        /\ (pc = "returned" /\ result.kind = "return") =>
              /\ Len(exits) = 2
              /\ Succeeded(exits[2])
              /\ result.value = strip(exits[1].stdout)

C27_Witness ==
    /\ pc = "returned"
    /\ op.name = "submit_and_wait"
    /\ op.layer = "PueueWrapper"
    /\ issued = << <<"add", "--print-task-id", "--label", "Sleep 3 seconds", "sleep 3">>,
                   <<"wait", "7">> >>
    /\ exits[2] = Exited(0, "Task 1 finished\n", "")
    /\ result = Return("7")

\* The remove_group calls the page has made for group g.
RemoveGroupCalls(g) == {i \in DOMAIN ui.calls : ui.calls[i] = <<"remove_group", g>>}

\* C30: on the Groups page, for a selected group other than default, the
\* clicks "delete group" and then "confirm delete" lead to exactly one
\* remove_group call for that group.
C30_DeleteThenConfirmRemovesGroup ==
    \A g \in UiGroups \ {"default"} :
        (ui.selected = g /\ ui.clicks = <<"delete_" \o g, "confirm_delete_" \o g>>)
            ~> (Cardinality(RemoveGroupCalls(g)) = 1)

====
